---- MODULE Spec2Model ----
(***************************************************************************)
(* Retrieval and ranking pipeline of newsletterz.                          *)
(*                                                                         *)
(*   SearchExecutor            src/src/search/search_executor.py           *)
(*   CompanyRegistry           src/src/search/company_registry.py          *)
(*   ResponseCrafter           src/src/search/response_crafter.py          *)
(*   EnhancedEmailSearchChain  src/src/llm/enhanced_search_chain.py        *)
(*   chunk_email               src/src/email/email_processor.py            *)
(*                                                                         *)
(* The specifications share the variables below:                           *)
(*   Spec             one invocation of SearchExecutor.execute_search      *)
(*   SpecConsolidate  the loop of SearchExecutor._consolidate_results,     *)
(*                    one iteration per step                               *)
(*   SpecNormalize    the score functions _normalize_distances and         *)
(*                    _filter_by_relevance applied to a pool of distances  *)
(*   SpecFilter       the filter builders of SearchExecutor on the tokens  *)
(*                    and the time range of a query intent                 *)
(*   SpecCrafter      one invocation of ResponseCrafter.craft_response     *)
(*   SpecChain        one invocation of EnhancedEmailSearchChain.search    *)
(*   SpecSearch       one invocation of either search entry point          *)
(*   SpecChunk        one invocation of chunk_email, one iteration of its  *)
(*                    loop per step                                        *)
(*   SpecRegistry     one invocation of CompanyRegistry.match_sender, one  *)
(*                    company of the registry per step                     *)
(*                                                                         *)
(* Numbers.  Distances are naturals.  A similarity of _normalize_distances *)
(* is kept as its numerator over MaxExpectedDistance (similarity 0.83 is   *)
(* 249 over 300); a min-max relevance of _filter_by_relevance is kept as a *)
(* fraction [num, den].  Thresholds are kept in hundredths (0.95 is 95).   *)
(* Comparisons are exact; the distance values used below were chosen so    *)
(* that the floating-point comparisons of the code give the same answers.  *)
(***************************************************************************)
EXTENDS Integers, Sequences, FiniteSets, TLC

VARIABLES
    \* ---- SearchExecutor.execute_search, one invocation
    pc,             \* "idle", "embedding", "querying", "returned", "raised"
    intent_type,    \* QueryIntent.type
    limit,          \* the limit argument
    embed_calls,    \* number of calls made to the embedding service
    query_calls,    \* number of calls made to collection.query
    failed,         \* the step that failed: "none", "embedding", "query", "record"
    output,         \* the dict returned by execute_search
    raised,         \* the message of the exception that left execute_search
    index,          \* the candidates of the collection at the time of the query
    malformed,      \* the candidate that lacks a metadata field, and the field
    \* ---- SearchExecutor._consolidate_results, one iteration per step
    cpc,            \* "off", "start", "loop", "done"
    results,        \* the argument: combined_results of execute_search
    sorted_results, \* sorted(results, key=date, reverse=True)
    idx,            \* position of the for loop in sorted_results
    consolidated,   \* the list being built
    seen_threads,   \* the set of thread ids seen
    branches,       \* what each iteration so far did, in order
    \* ---- the score functions
    npc,            \* the score functions that have returned
    distances,      \* results['distances'][0] as the index returns it
    similarities,   \* the result of _normalize_distances
    filtered,       \* the result of _filter_by_relevance
    \* ---- the filter builders of SearchExecutor (execute_search lines 237-241)
    fpc,            \* the builders that have returned
    companies,      \* intent.filters.companies, a list of tokens
    time_range,     \* intent.filters.time_range: <<>> is None, else <<[start, end]>>
    company_filter, \* the result of _build_company_filter
    date_filter,    \* the result of _build_date_filter
    where_filter,   \* the result of _combine_filters
    \* ---- ResponseCrafter.craft_response, one invocation
    rpc,            \* "off", "called", "returned"
    search_results, \* the search_results argument, a payload
    prompt,         \* the prompt _get_prompt built for the model
    response,       \* the text craft_response returned, as a sequence of pieces
    llm_calls,      \* number of calls made to the language model
    \* ---- EnhancedEmailSearchChain.search, one invocation
    spc,            \* "off", "idle", "embedding", "querying", "getting",
                    \* "getting_again", "returned"
    parsed_intent,  \* parsed['intent']
    chain_limit,    \* the limit argument
    keywords,       \* len(keywords); the keywords are told apart by position
    kw,             \* position of the for loop in keywords; 0 is the topic
    all_results,    \* the id pools, one per keyword
    common_ids,     \* set.intersection(*all_results)
    chain_results,  \* results of line 261: the hits of the query of the topic
    embedded,       \* the search texts given to get_embedding, in order
    index_calls,    \* number of calls made to collection.query and collection.get
    chain_failed,   \* the call that raised: "none", "embedding", "query", "get"
    chain_output,   \* the dict returned by search
    \* ---- chunk_email, one invocation, one iteration of the while loop per step
    kpc,            \* "off", "called", "loop", "returned"
    subject,        \* the subject argument, a sequence of characters
    content,        \* the content argument, a sequence of characters
    chunk_size,     \* the chunk_size argument
    overlap,        \* the overlap argument
    chunk_start,    \* start
    position,       \* position
    chunks,         \* chunks
    \* ---- CompanyRegistry.match_sender, one invocation, one company per step
    mpc,            \* "off", "called", "loop", "returned"
    sender,         \* the from_field argument, a sequence of characters
    from_field,     \* from_field after line 92
    company_at,     \* position of the for loop of line 94 in COMPANIES
    matched         \* the value returned

execVars == <<pc, intent_type, limit, embed_calls, query_calls, failed, output, raised,
              index, malformed>>
consVars == <<cpc, results, sorted_results, idx, consolidated, seen_threads, branches>>
normVars == <<npc, distances, similarities, filtered>>
filtVars == <<fpc, companies, time_range, company_filter, date_filter, where_filter>>
craftVars == <<rpc, search_results, prompt, response, llm_calls>>
chainVars == <<spc, parsed_intent, chain_limit, keywords, kw, all_results, common_ids,
               chain_results, embedded, index_calls, chain_failed, chain_output>>
chunkVars == <<kpc, subject, content, chunk_size, overlap, chunk_start, position, chunks>>
registryVars == <<mpc, sender, from_field, company_at, matched>>
restVars == <<chunkVars, registryVars>>
otherVars == <<filtVars, craftVars, chainVars, restVars>>
vars == <<execVars, consVars, normVars, otherVars>>

-----------------------------------------------------------------------------
(* Bounds of the model *)

MaxHits == 2        \* hits the index returns to one execute_search
MaxLimit == 3       \* largest limit argument
MaxLen == 3         \* longest input list of the consolidator
MaxPool == 3        \* longest pool of distances given to the score functions
MaxThread == 1      \* thread ids are 1..MaxThread; 0 is an absent thread_id
MaxDate == 2        \* dates (unix seconds) are 1..MaxDate
MaxTokens == 2      \* longest list of company tokens of a query intent
MaxResults == 3     \* longest list of results of a payload given to the crafter
MaxDocs == 3        \* documents of the collection the chain searches: ids 1..MaxDocs
MaxKeywords == 2    \* longest keyword list of a parsed query

\* Raw distances of the pools given to the score functions, the pool of the
\* specification's example, and the raw distances of the hits of a query
DistVals == {51, 57, 69, 310, 330}
HitDistVals == {51, 57, 69}
ExampleDistances == <<100, 120, 200, 210, 1000>>
ThreadIds == 0..MaxThread
Dates == 1..MaxDate

\* The thread ids (0 is no thread id) and the dates of the hits of the query
\* of execute_search, and the dates of the documents of the query of search
HitThreadIds == {0, 1}
HitDates == {1, 2}
ChainDates == {1, 2}
IntentTypes == {"count", "summary", "trend", "list"}

-----------------------------------------------------------------------------
(* Helpers *)

Max(a, b) == IF a >= b THEN a ELSE b
Abs(a) == IF a >= 0 THEN a ELSE 0 - a
SeqMin(s) == CHOOSE x \in {s[i] : i \in 1..Len(s)} : \A j \in 1..Len(s) : x <= s[j]
SeqMax(s) == CHOOSE x \in {s[i] : i \in 1..Len(s)} : \A j \in 1..Len(s) : x >= s[j]
Ascending(s) == \A i \in 1..Len(s) : \A j \in i..Len(s) : s[i] <= s[j]
RemoveAt(s, j) == [k \in 1..(Len(s) - 1) |-> IF k < j THEN s[k] ELSE s[k + 1]]

\* Python's sorted(seq, key=..., reverse=True), keys[i] being the key of seq[i]:
\* descending, and stable (equal keys keep their order)
SortedDesc(seq, keys) ==
    LET n == Len(seq)
        Rank(i) == 1 + Cardinality({j \in 1..n :
                        \/ keys[j] > keys[i]
                        \/ (keys[j] = keys[i] /\ j < i)})
    IN  [r \in 1..n |-> seq[CHOOSE i \in 1..n : Rank(i) = r]]

\* Pools of distances as the vector index returns them: ascending
SortedPools(n) == {d \in [1..n -> DistVals] : Ascending(d)}
SortedHitPools(n) == {d \in [1..n -> HitDistVals] : Ascending(d)}

-----------------------------------------------------------------------------
(* SearchExecutor._normalize_distances *)

MaxExpectedDistance == 300

\* max(0, 1 - distance / max_expected_distance), as a numerator over 300
NormalizeDistancesUnclamped(ds) ==
    [i \in 1..Len(ds) |-> MaxExpectedDistance - ds[i]]

NormalizeDistances(ds) ==
    [i \in 1..Len(ds) |-> Max(0, MaxExpectedDistance - ds[i])]

-----------------------------------------------------------------------------
(* EnhancedEmailSearchChain._filter_by_relevance *)

MinRelevance == 70      \* min_relevance = 0.7, in hundredths

\* relevance = 1 - ((distance - min_dist) / dist_range if dist_range > 0 else 0)
RelevanceNotInverted(ds, i) ==
    LET min_dist == SeqMin(ds)
        dist_range == SeqMax(ds) - min_dist
    IN  IF dist_range > 0
        THEN [num |-> ds[i] - min_dist, den |-> dist_range]
        ELSE [num |-> 0, den |-> 1]

Relevance(ds, i) ==
    LET min_dist == SeqMin(ds)
        dist_range == SeqMax(ds) - min_dist
    IN  IF dist_range > 0
        THEN [num |-> dist_range - (ds[i] - min_dist), den |-> dist_range]
        ELSE [num |-> 1, den |-> 1]

\* relevance >= min_relevance
Relevant(rel, min_relevance) == rel.num * 100 >= min_relevance * rel.den

\* The indices kept (filtered_indices) and their scores (relevance_scores).
\* An empty pool is returned as it is.
FilterByRelevance(ds, min_relevance) ==
    IF Len(ds) = 0
    THEN [indices |-> <<>>, distances |-> <<>>]
    ELSE LET keep == {i \in 1..Len(ds) : Relevant(Relevance(ds, i), min_relevance)}
             RECURSIVE Walk(_)
             Walk(i) == IF i > Len(ds) THEN <<>>
                        ELSE (IF i \in keep THEN <<i>> ELSE <<>>) \o Walk(i + 1)
             filtered_indices == Walk(1)
         IN  [indices |-> filtered_indices,
              distances |-> [k \in 1..Len(filtered_indices) |->
                                Relevance(ds, filtered_indices[k])]]

-----------------------------------------------------------------------------
(* SearchExecutor.execute_search, lines 270-289: scoring of the hits *)

\* An answer of collection.query: k hits with distances d (ascending), thread
\* ids t and dates dt; the position in the answer stands for the id
QueryAnswer(k, d, t, dt) ==
    [i \in 1..k |-> [id |-> i, thread_id |-> t[i], date |-> dt[i], raw_distance |-> d[i]]]

\* The sort keys: x['similarity'] and x['metadata']['date']
Similarities(rs) == [i \in 1..Len(rs) |-> rs[i].similarity]
DatesOf(rs) == [i \in 1..Len(rs) |-> rs[i].date]

\* combined_results: each hit with its similarity, sorted by similarity descending
CombinedResults(hits) ==
    LET sims == NormalizeDistances([i \in 1..Len(hits) |-> hits[i].raw_distance])
        combined == [i \in 1..Len(hits) |->
                        [id |-> hits[i].id, thread_id |-> hits[i].thread_id,
                         date |-> hits[i].date, raw_distance |-> hits[i].raw_distance,
                         similarity |-> sims[i]]]
    IN  SortedDesc(combined, Similarities(combined))

-----------------------------------------------------------------------------
(* SearchExecutor._consolidate_results *)

SimilarityThreshold == 95       \* similarity_threshold = 0.95, in hundredths

\* sorted(results, key=lambda x: x['metadata']['date'], reverse=True)
SortedByDateAscending(rs) ==
    LET desc == SortedDesc(rs, DatesOf(rs))
    IN  [k \in 1..Len(rs) |-> desc[Len(rs) + 1 - k]]

SortedByDate(rs) == SortedDesc(rs, DatesOf(rs))

\* thread_id and thread_id in seen_threads  (None and "" are absent: 0)
InSeenThread(r, seen) == r.thread_id # 0 /\ r.thread_id \in seen

\* score_diff < (1 - similarity_threshold)
IsSimilar(existing, r) ==
    Abs(existing.similarity - r.similarity) * 100
        < (100 - SimilarityThreshold) * MaxExpectedDistance

\* result['similarity'] > existing['similarity']
NeverBetter(r, existing) == FALSE

IsBetter(r, existing) == r.similarity > existing.similarity

\* The first entry of consolidated that r is similar to (0: none); the for
\* loop over consolidated breaks at it
FirstSimilar(cons, r) ==
    IF \E j \in 1..Len(cons) : IsSimilar(cons[j], r)
    THEN CHOOSE j \in 1..Len(cons) :
            /\ IsSimilar(cons[j], r)
            /\ \A k \in 1..(j - 1) : ~IsSimilar(cons[k], r)
    ELSE 0

\* What one iteration of the loop does with r
BranchOf(cons, seen, r) ==
    IF InSeenThread(r, seen) THEN "skip"
    ELSE LET j == FirstSimilar(cons, r)
         IN  IF j = 0 THEN "append"
             ELSE IF IsBetter(r, cons[j]) THEN "replace" ELSE "keep"

\* consolidated after one iteration: remove(existing) then append(result)
ConsolidatedAfter(cons, seen, r) ==
    LET b == BranchOf(cons, seen, r)
    IN  CASE b = "skip" -> cons
          [] b = "append" -> Append(cons, r)
          [] b = "replace" -> Append(RemoveAt(cons, FirstSimilar(cons, r)), r)
          [] b = "keep" -> cons

\* seen_threads after one iteration: if thread_id: seen_threads.add(thread_id)
SeenAfterAppendOnly(cons, seen, r) ==
    IF r.thread_id # 0 /\ BranchOf(cons, seen, r) = "append"
    THEN seen \cup {r.thread_id} ELSE seen

SeenAfterNotWhenDropped(cons, seen, r) ==
    IF r.thread_id # 0 /\ BranchOf(cons, seen, r) \in {"append", "replace"}
    THEN seen \cup {r.thread_id} ELSE seen

SeenAfter(cons, seen, r) ==
    IF r.thread_id # 0 /\ BranchOf(cons, seen, r) # "skip"
    THEN seen \cup {r.thread_id} ELSE seen

\* The whole function
RECURSIVE ConsolidateFrom(_, _, _, _)
ConsolidateFrom(sorted, i, cons, seen) ==
    IF i > Len(sorted) THEN cons
    ELSE ConsolidateFrom(sorted, i + 1,
                         ConsolidatedAfter(cons, seen, sorted[i]),
                         SeenAfter(cons, seen, sorted[i]))

ConsolidateResults(rs) == ConsolidateFrom(SortedByDate(rs), 1, <<>>, {})

-----------------------------------------------------------------------------
(* The filter builders of SearchExecutor and the registry they read *)

\* CompanyRegistry.COMPANIES, and its keys in the order of the dict
COMPANIES ==
    [mckinsey |-> [domains |-> <<"mckinsey.com", "email.mckinsey.com">>,
                   patterns |-> <<"mckinsey", "mck@">>],
     bcg |-> [domains |-> <<"bcg.com", "email.bcg.com">>,
              patterns |-> <<"@bcg", "boston consult">>],
     bain |-> [domains |-> <<"bain.com">>,
               patterns |-> <<"@bain", "bain &">>],
     deloitte |-> [domains |-> <<"deloitte.com", "email.deloitte.com">>,
                   patterns |-> <<"@deloitte">>],
     pwc |-> [domains |-> <<"pwc.com">>,
              patterns |-> <<"@pwc", "pricewaterhouse">>],
     ey |-> [domains |-> <<"ey.com">>,
             patterns |-> <<"@ey", "ernst & young">>],
     kpmg |-> [domains |-> <<"kpmg.com">>,
               patterns |-> <<"@kpmg">>],
     meta |-> [domains |-> <<"meta.com", "fb.com", "facebook.com", "instagram.com",
                             "whatsapp.com">>,
               patterns |-> <<"@meta", "@fb", "@facebook", "@instagram", "@whatsapp">>],
     apple |-> [domains |-> <<"apple.com">>,
                patterns |-> <<"@apple">>],
     amazon |-> [domains |-> <<"amazon.com", "aws.amazon.com", "aws.com">>,
                 patterns |-> <<"@amazon", "@aws">>],
     netflix |-> [domains |-> <<"netflix.com">>,
                  patterns |-> <<"@netflix">>],
     google |-> [domains |-> <<"google.com", "alphabet.com", "gmail.com">>,
                 patterns |-> <<"@google", "@alphabet">>],
     microsoft |-> [domains |-> <<"microsoft.com", "ms.com">>,
                    patterns |-> <<"@microsoft", "@ms">>],
     imf |-> [domains |-> <<"imf.org", "internationalmonetaryfund.org">>,
              patterns |-> <<"@imf", "international monetary fund">>],
     idb |-> [domains |-> <<"iadb.org">>,
              patterns |-> <<"@idb", "@iadb", "inter-american development bank">>],
     un |-> [domains |-> <<"un.org", "undp.org", "unesco.org", "who.int">>,
             patterns |-> <<"@un.org", "@undp", "@unesco", "@who.int", "united nations">>]]

CompanyKeys ==
    <<"mckinsey", "bcg", "bain", "deloitte", "pwc", "ey", "kpmg", "meta", "apple",
      "amazon", "netflix", "google", "microsoft", "imf", "idb", "un">>

\* The company tokens a query intent is given here: registry keys, a key in
\* another case, registered domains and patterns, the name of a field of a
\* registry entry, and a token the registry does not know
CompanyTokens ==
    {"mckinsey", "McKinsey", "mckinsey.com", "bcg", "@BCG", "domains",
     "not-a-real-company"}

\* str.lower() on the strings of the model: the registry's strings and the
\* other tokens are in lower case already
Lower(s) ==
    CASE s = "McKinsey" -> "mckinsey"
      [] s = "@BCG" -> "@bcg"
      [] OTHER -> s

SeqToSet(s) == {s[i] : i \in 1..Len(s)}

RECURSIVE Flatten(_)
Flatten(ss) == IF ss = <<>> THEN <<>> ELSE Head(ss) \o Flatten(Tail(ss))

\* The dicts the builders return; NoFilter is None
NoFilter == [kind |-> "none"]
InFilter(field, values) == [kind |-> "in", field |-> field, values |-> values]
CmpFilter(field, op, value) == [kind |-> "cmp", field |-> field, op |-> op, value |-> value]
AndFilter(parts) == [kind |-> "and", parts |-> parts]

\* lines 45-52, what one token appends to company_variations.  The inner loop
\* iterates a registry entry itself, which is a dict: it yields the entry's
\* field names, not the strings of its domains and patterns.
VariationsOf(token) ==
    LET company == Lower(token)
        direct == IF company \in DOMAIN COMPANIES THEN <<company>> ELSE <<>>
        Matches(reg_company) == company \in {Lower(v) : v \in DOMAIN COMPANIES[reg_company]}
    IN  direct \o SelectSeq(CompanyKeys, Matches)

\* SearchExecutor._build_company_filter
BuildCompanyFilter(tokens) ==
    LET company_variations == Flatten([i \in 1..Len(tokens) |-> VariationsOf(tokens[i])])
    IN  IF tokens = <<>> \/ company_variations = <<>>
        THEN NoFilter
        ELSE InFilter("company", company_variations)

\* An optional value: <<>> is None, <<x>> is the value x
Absent == <<>>
Given(x) == <<x>>
IsGiven(o) == o # <<>>
ValueOf(o) == o[1]

\* int(datetime.timestamp()): instants are counted in half seconds since the
\* epoch, a timestamp is whole seconds
Timestamp(instant) == instant \div 2

BuildDateFilterStartOnly(tr) ==
    IF ~IsGiven(tr) \/ ~IsGiven(ValueOf(tr).start)
    THEN NoFilter
    ELSE CmpFilter("date", "$gte", Timestamp(ValueOf(ValueOf(tr).start)))

\* SearchExecutor._build_date_filter
BuildDateFilter(tr) ==
    IF ~IsGiven(tr) \/ (~IsGiven(ValueOf(tr).start) /\ ~IsGiven(ValueOf(tr).end))
    THEN NoFilter
    ELSE LET start == ValueOf(tr).start
             end == ValueOf(tr).end
             filters ==
                 (IF IsGiven(start)
                  THEN <<CmpFilter("date", "$gte", Timestamp(ValueOf(start)))>> ELSE <<>>)
                 \o (IF IsGiven(end)
                     THEN <<CmpFilter("date", "$lte", Timestamp(ValueOf(end)))>> ELSE <<>>)
         IN  IF Len(filters) > 1 THEN AndFilter(filters) ELSE filters[1]

\* SearchExecutor._combine_filters
CombineFilters(filters) ==
    LET NotNone(f) == f # NoFilter
        valid_filters == SelectSeq(filters, NotNone)
    IN  IF valid_filters = <<>> THEN NoFilter
        ELSE IF Len(valid_filters) = 1 THEN valid_filters[1]
        ELSE AndFilter(valid_filters)

-----------------------------------------------------------------------------
(* ResponseCrafter: the selection of _get_prompt *)

\* The default of the limit argument of ResponseCrafter.__init__
CrafterLimit == 100

CrafterCompanies == {"mckinsey", "bcg"}
CrafterDistances == {51, 69}

NoPrompt == [query_type |-> "none", total_results |-> 0, details |-> <<>>]

\* The texts craft_response returns: nothing yet, line 68, line 71 and line 79
\* (the answer of the model, whatever it is)
NoResponse == <<>>
ErrorResponse(message) == <<"Error: ", message>>
NoEmailsResponse == <<"No emails found matching your query.">>
ModelResponse == <<"response.strip()">>

\* The messages of the error payloads given to craft_response
ErrorMessages == {"Search execution failed", "No results found"}

\* lines 35-40: the entries by_company holds after the loop, in the order in
\* which their companies were first met.  An entry replaces the one of its
\* company only if its date is greater.
FirstOfCompany(rs, i) == \A j \in 1..(i - 1) : rs[j].company # rs[i].company
FirstSeenOfCompany(rs, i) == rs[i]
MostRecentOfCompany(rs, i) ==
    LET same == {j \in 1..Len(rs) : rs[j].company = rs[i].company}
        best == CHOOSE j \in same :
                    /\ \A k \in same : rs[k].date <= rs[j].date
                    /\ \A k \in same : rs[k].date = rs[j].date => j <= k
    IN  rs[best]
IndicesWhere(n, ok) == SelectSeq([i \in 1..n |-> i], LAMBDA i : i \in ok)
TrendSelection(rs) ==
    LET firsts == IndicesWhere(Len(rs), {i \in 1..Len(rs) : FirstOfCompany(rs, i)})
    IN  [k \in 1..Len(firsts) |-> MostRecentOfCompany(rs, firsts[k])]

\* line 44: sorted(results, key=distance)[:3]
SummarySelection(rs) ==
    LET byDistance == SortedDesc(rs, [i \in 1..Len(rs) |-> 0 - rs[i].distance])
    IN  SubSeq(byDistance, 1, IF Len(rs) < 3 THEN Len(rs) ELSE 3)

\* line 48: results[:self.limit]
ListSelection(rs) == SubSeq(rs, 1, IF Len(rs) < CrafterLimit THEN Len(rs) ELSE CrafterLimit)

\* ResponseCrafter._get_prompt: the query type, the total and the entries the
\* prompt shows to the model
GetPrompt(payload) ==
    [query_type |-> payload.type,
     total_results |-> payload.total_results,
     details |->
        IF payload.type = "count"
        THEN (IF payload.results # <<>> THEN <<payload.results[1]>> ELSE <<>>)
        ELSE IF payload.type = "trend" THEN TrendSelection(payload.results)
        ELSE IF payload.type = "summary" THEN SummarySelection(payload.results)
        ELSE ListSelection(payload.results)]

-----------------------------------------------------------------------------
(* EnhancedEmailSearchChain: the answers of the index and _format_results *)

\* The cap of n_results in search
MaxNResults == 10000

ChainIntents == {"count", "latest", "search", "timeline"}
DocIds == 1..MaxDocs
ChainDistVals == {100, 120, 1000}

\* lines 208 and 263: n_results of collection.query
NResults(lim) == IF lim * 2 < MaxNResults THEN lim * 2 ELSE MaxNResults

\* What collection.query may answer: each document is left out (0) or returned
\* at a distance, and at most n_results documents are returned
ChainAnswers(lim) ==
    {m \in [DocIds -> {0} \cup ChainDistVals] :
        Cardinality({d \in DocIds : m[d] # 0}) <= NResults(lim)}

\* The hits of an answer, nearest first
ChainHits(m) ==
    LET ids == {d \in DocIds : m[d] # 0}
        Rank(d) == 1 + Cardinality({e \in ids : m[e] < m[d] \/ (m[e] = m[d] /\ e < d)})
    IN  [r \in 1..Cardinality(ids) |->
            LET d == CHOOSE e \in ids : Rank(e) = r
            IN  [id |-> d, distance |-> m[d]]]

\* _filter_by_relevance on the hits of a query: the ids kept with their
\* relevance scores, which the filter stores under 'distances'
ChainFiltered(hits, min_relevance) ==
    LET f == FilterByRelevance([i \in 1..Len(hits) |-> hits[i].distance], min_relevance)
    IN  [k \in 1..Len(f.indices) |->
            [id |-> hits[f.indices[k]].id, score |-> f.distances[k]]]

IdsOf(rs) == {rs[i].id : i \in 1..Len(rs)}

\* line 218: set.intersection(*all_results)
UnionOfPools(pools) == UNION {pools[i] : i \in 1..Len(pools)}
CommonIds(pools) == {d \in UnionOfPools(pools) : \A i \in 1..Len(pools) : d \in pools[i]}

\* collection.get(ids=list(common_ids)) with line 245.  The answer of get
\* holds one flat list per field with one entry per document
\* (get_processed_email_ids, email_processor.py lines 254-258, reads
\* 'metadatas' of such an answer as a list of dicts), where the answer of
\* query holds one list per query embedding.  Line 245 adds 'distances' as a
\* list of one list of scores 1.0.
GetAnswer(ids) ==
    LET sorted == IndicesWhere(MaxDocs, ids)
    IN  [ids |-> sorted,
         distances |-> <<[k \in 1..Len(sorted) |-> [num |-> 1, den |-> 1]]>>]

\* round(a / b, 3) in thousandths
Round3(a, b) == (2000 * a + b) \div (2 * b)

\* lines 315 and 317: relevance = round(1 / (1 + abs(score)), 3), in thousandths
ReportedRelevance(score) == Round3(score.den, score.den + Abs(score.num))

\* EnhancedEmailSearchChain._format_results (the second definition, lines
\* 307-345, which replaces the first): rs are the results with their scores,
\* date the dates of their metadata
FormatResults(rs, date, intent) ==
    IF rs = <<>>
    THEN [type |-> "error", message |-> "No results found"]
    ELSE IF intent = "count"
    THEN [type |-> "count", count |-> Len(rs)]
    ELSE LET formatted == [i \in 1..Len(rs) |->
                              [id |-> rs[i].id,
                               date |-> date[rs[i].id],
                               relevance |-> ReportedRelevance(rs[i].score)]]
         IN  [type |-> intent,
              results |-> SortedDesc(formatted,
                                     [i \in 1..Len(rs) |-> formatted[i].relevance]),
              count |-> Len(rs)]

\* lines 271-273
ErrorPayload(message) == [type |-> "error", message |-> message]

\* _format_results (lines 307-345) on an answer of collection.get:
\* results['ids'][0] is the first id and not a list of ids.  The ids are
\* those of the emails, non-empty strings, so the check of line 309 passes
\* and the loop starts; at i = 0 line 318 reads results['metadatas'][0][0],
\* the key 0 of the metadata dict of the first document, which raises
\* KeyError(0) for every intent.  Lines 271-273 return it as an error whose
\* message is str(e).
FormatGetAnswer(answer) ==
    IF answer.ids = <<>>
    THEN ErrorPayload("list index out of range")
    ELSE ErrorPayload("0")

-----------------------------------------------------------------------------
(* The parts of the state a specification does not use stay as they are here *)

\* The metadata fields execute_search reads with [] are date, subject and
\* from; "subject" stands for either of the last two, which are read together.
\* At most one candidate of the collection lacks a field.
WellFormed == [id |-> 0, field |-> "none"]
MalformedChoices(k) ==
    {WellFormed} \cup {[id |-> i, field |-> f] : i \in 1..k, f \in {"date", "subject"}}

ExecOff ==
    /\ pc = "off" /\ intent_type = "none" /\ limit = 0
    /\ embed_calls = 0 /\ query_calls = 0 /\ failed = "none"
    /\ output = [type |-> "none"] /\ raised = "none"
    /\ index = <<>> /\ malformed = WellFormed

ConsOff ==
    /\ cpc = "off" /\ results = <<>> /\ sorted_results = <<>> /\ idx = 0
    /\ consolidated = <<>> /\ seen_threads = {} /\ branches = <<>>

NormOff ==
    /\ npc = {"off"} /\ distances = <<>>
    /\ similarities = <<>> /\ filtered = [indices |-> <<>>, distances |-> <<>>]

FiltOff ==
    /\ fpc = {"off"} /\ companies = <<>> /\ time_range = Absent
    /\ company_filter = NoFilter /\ date_filter = NoFilter /\ where_filter = NoFilter

CraftOff ==
    /\ rpc = "off" /\ search_results = [type |-> "none"] /\ prompt = NoPrompt
    /\ response = NoResponse /\ llm_calls = 0

ChainOff ==
    /\ spc = "off" /\ parsed_intent = "none" /\ chain_limit = 0 /\ keywords = 0
    /\ kw = 0 /\ all_results = <<>> /\ common_ids = {} /\ embedded = <<>>
    /\ chain_results = <<>>
    /\ index_calls = 0 /\ chain_failed = "none" /\ chain_output = [type |-> "none"]

ChunkOff ==
    /\ kpc = "off" /\ subject = <<>> /\ content = <<>> /\ chunk_size = 0 /\ overlap = 0
    /\ chunk_start = 0 /\ position = 0 /\ chunks = <<>>

RegistryOff ==
    /\ mpc = "off" /\ sender = <<>> /\ from_field = <<>> /\ company_at = 0
    /\ matched = "none"

RestOff == ChunkOff /\ RegistryOff

OtherOff == FiltOff /\ CraftOff /\ ChainOff /\ RestOff

-----------------------------------------------------------------------------
(* SpecNormalize: the two score functions on one pool of distances *)

InitNormalize ==
    /\ ExecOff /\ ConsOff /\ OtherOff
    /\ npc = {}
    /\ distances \in (UNION {SortedPools(n) : n \in 0..MaxPool}) \cup {ExampleDistances}
    /\ similarities = <<>>
    /\ filtered = [indices |-> <<>>, distances |-> <<>>]

\* similarities = self._normalize_distances(results['distances'][0])
NormalizeCall ==
    /\ npc \subseteq {"filter"}
    /\ similarities' = NormalizeDistances(distances)
    /\ npc' = npc \cup {"normalize"}
    /\ UNCHANGED <<distances, filtered, execVars, consVars, otherVars>>

\* filtered = self._filter_by_relevance(results, min_relevance)
FilterCall ==
    /\ npc \subseteq {"normalize"}
    /\ filtered' = FilterByRelevance(distances, MinRelevance)
    /\ npc' = npc \cup {"filter"}
    /\ UNCHANGED <<distances, similarities, execVars, consVars, otherVars>>

NextNormalize == NormalizeCall \/ FilterCall

SpecNormalize == InitNormalize /\ [][NextNormalize]_vars

-----------------------------------------------------------------------------
(* SpecConsolidate: _consolidate_results on the combined results of a query *)

InitConsolidate ==
    /\ ExecOff /\ NormOff /\ OtherOff
    /\ cpc = "start"
    /\ \E k \in 0..MaxLen :
        \E d \in SortedHitPools(k), t \in [1..k -> ThreadIds], dt \in [1..k -> Dates] :
            results = CombinedResults(QueryAnswer(k, d, t, dt))
    /\ sorted_results = <<>> /\ idx = 0
    /\ consolidated = <<>> /\ seen_threads = {} /\ branches = <<>>

\* lines 193-197
ConsolidateSort ==
    /\ cpc = "start"
    /\ sorted_results' = SortedByDate(results)
    /\ idx' = 1
    /\ cpc' = "loop"
    /\ UNCHANGED <<results, consolidated, seen_threads, branches, execVars, normVars, otherVars>>

\* The candidate of the current iteration of the loop of lines 199-223
AtCandidate == cpc = "loop" /\ idx <= Len(sorted_results)
Candidate == sorted_results[idx]

\* lines 203-204: the candidate's thread was seen, continue
ConsolidateSkip ==
    /\ AtCandidate
    /\ BranchOf(consolidated, seen_threads, Candidate) = "skip"
    /\ consolidated' = ConsolidatedAfter(consolidated, seen_threads, Candidate)
    /\ seen_threads' = SeenAfter(consolidated, seen_threads, Candidate)
    /\ idx' = idx + 1
    /\ branches' = Append(branches, "skip")
    /\ UNCHANGED <<cpc, results, sorted_results, execVars, normVars, otherVars>>

\* lines 219-223: no accepted entry is similar, append
ConsolidateAppend ==
    /\ AtCandidate
    /\ BranchOf(consolidated, seen_threads, Candidate) = "append"
    /\ consolidated' = ConsolidatedAfter(consolidated, seen_threads, Candidate)
    /\ seen_threads' = SeenAfter(consolidated, seen_threads, Candidate)
    /\ idx' = idx + 1
    /\ branches' = Append(branches, "append")
    /\ UNCHANGED <<cpc, results, sorted_results, execVars, normVars, otherVars>>

\* lines 211-217, 222-223: similar to an accepted entry and better, replace it
ConsolidateReplace ==
    /\ AtCandidate
    /\ BranchOf(consolidated, seen_threads, Candidate) = "replace"
    /\ consolidated' = ConsolidatedAfter(consolidated, seen_threads, Candidate)
    /\ seen_threads' = SeenAfter(consolidated, seen_threads, Candidate)
    /\ idx' = idx + 1
    /\ branches' = Append(branches, "replace")
    /\ UNCHANGED <<cpc, results, sorted_results, execVars, normVars, otherVars>>

\* lines 211-217, 222-223: similar to an accepted entry and not better, drop it
ConsolidateKeep ==
    /\ AtCandidate
    /\ BranchOf(consolidated, seen_threads, Candidate) = "keep"
    /\ consolidated' = ConsolidatedAfter(consolidated, seen_threads, Candidate)
    /\ seen_threads' = SeenAfter(consolidated, seen_threads, Candidate)
    /\ idx' = idx + 1
    /\ branches' = Append(branches, "keep")
    /\ UNCHANGED <<cpc, results, sorted_results, execVars, normVars, otherVars>>

\* line 225
ConsolidateReturn ==
    /\ cpc = "loop" /\ idx > Len(sorted_results)
    /\ cpc' = "done"
    /\ UNCHANGED <<results, sorted_results, idx, consolidated, seen_threads, branches,
                   execVars, normVars, otherVars>>

NextConsolidate ==
    \/ ConsolidateSort
    \/ ConsolidateSkip
    \/ ConsolidateAppend
    \/ ConsolidateReplace
    \/ ConsolidateKeep
    \/ ConsolidateReturn

SpecConsolidate == InitConsolidate /\ [][NextConsolidate]_vars

-----------------------------------------------------------------------------
(* Spec: one invocation of SearchExecutor.execute_search *)

\* The dict built at lines 299-317
Output(type, combined_results, consolidated_results, final_results) ==
    [type |-> type,
     total_results |-> Len(combined_results),
     consolidated_results |-> Len(consolidated_results),
     returned_results |-> Len(final_results),
     results |-> [i \in 1..Len(final_results) |->
                    [id |-> final_results[i].id,
                     date |-> final_results[i].date,
                     distance |-> MaxExpectedDistance - final_results[i].similarity,
                     thread_id |-> final_results[i].thread_id]]]

SearchOutputOfCombined(type, lim, hits) ==
    LET combined_results == CombinedResults(hits)
        consolidated_results == ConsolidateResults(combined_results)
        final_results == SubSeq(combined_results, 1,
                                IF Len(combined_results) < lim
                                THEN Len(combined_results) ELSE lim)
    IN  Output(type, combined_results, consolidated_results, final_results)

\* lines 270-317: what execute_search returns for the hits of the index
SearchOutput(type, lim, hits) ==
    LET combined_results == CombinedResults(hits)
        consolidated_results == ConsolidateResults(combined_results)
        final_results == SubSeq(consolidated_results, 1,
                                IF Len(consolidated_results) < lim
                                THEN Len(consolidated_results) ELSE lim)
    IN  Output(type, combined_results, consolidated_results, final_results)

\* collection.query(n_results=limit) on a collection whose candidates, nearest
\* first, are idx: the first limit of them
Hits(idx_, lim) == SubSeq(idx_, 1, IF Len(idx_) < lim THEN Len(idx_) ELSE lim)

\* The records of hits that lack the field f
Lacking(hits, mal, f) ==
    {i \in 1..Len(hits) : mal.field = f /\ hits[i].id = mal.id}

\* lines 197 and 305-309: the metadata reads that raise KeyError.  The sort
\* of _consolidate_results reads the date of every hit; the payload reads
\* subject and from of every final result.
RaisesKeyError(lim, hits, mal) ==
    \/ Lacking(hits, mal, "date") # {}
    \/ Lacking(SearchOutput("none", lim, hits).results, mal, "subject") # {}

\* The hits without the record that lacks a field
WithoutMalformed(hits, mal) ==
    LET Complete(h) == ~(mal.field # "none" /\ h.id = mal.id)
    IN  SelectSeq(hits, Complete)

Init ==
    /\ ConsOff /\ NormOff /\ OtherOff
    /\ pc = "idle" /\ intent_type = "none" /\ limit = 0
    /\ embed_calls = 0 /\ query_calls = 0 /\ failed = "none"
    /\ output = [type |-> "none"] /\ raised = "none"
    /\ index = <<>> /\ malformed = WellFormed

\* execute_search(intent, limit) is called; lines 237-247 build filter and query text
ExecuteSearch ==
    /\ pc = "idle"
    /\ \E t \in IntentTypes, l \in 1..MaxLimit : intent_type' = t /\ limit' = l
    /\ pc' = "embedding"
    /\ UNCHANGED <<embed_calls, query_calls, failed, output, raised, index, malformed,
                   consVars, normVars, otherVars>>

\* line 256, _get_embedding answers
GetEmbedding ==
    /\ pc = "embedding"
    /\ embed_calls' = embed_calls + 1
    /\ pc' = "querying"
    /\ UNCHANGED <<intent_type, limit, query_calls, failed, output, raised,
                   index, malformed, consVars, normVars, otherVars>>

\* line 256, _get_embedding raises (lines 31-32); nothing in execute_search catches it
GetEmbeddingFails ==
    /\ pc = "embedding"
    /\ embed_calls' = embed_calls + 1
    /\ failed' = "embedding"
    /\ raised' = "Failed to get embedding"
    /\ pc' = "raised"
    /\ UNCHANGED <<intent_type, limit, query_calls, output, index, malformed,
                   consVars, normVars, otherVars>>

\* lines 260-325, collection.query answers with the n_results = limit nearest
\* candidates of the collection, and the payload is built from them
Query ==
    /\ pc = "querying"
    /\ query_calls' = query_calls + 1
    /\ \E k \in 0..MaxHits :
        \E d \in SortedHitPools(k), t \in [1..k -> HitThreadIds], dt \in [1..k -> HitDates] :
            \E mal \in MalformedChoices(k) :
                /\ index' = QueryAnswer(k, d, t, dt)
                /\ malformed' = mal
                /\ ~RaisesKeyError(limit, Hits(index', limit), mal)
                /\ output' = SearchOutput(intent_type, limit, Hits(index', limit))
    /\ pc' = "returned"
    /\ UNCHANGED <<intent_type, limit, embed_calls, failed, raised, consVars, normVars, otherVars>>

\* lines 260-309, collection.query answers and a hit lacks a metadata field
\* the code reads with []: the KeyError leaves execute_search
QueryKeyError ==
    /\ pc = "querying"
    /\ query_calls' = query_calls + 1
    /\ \E k \in 0..MaxHits :
        \E d \in SortedHitPools(k), t \in [1..k -> HitThreadIds], dt \in [1..k -> HitDates] :
            \E mal \in MalformedChoices(k) :
                /\ index' = QueryAnswer(k, d, t, dt)
                /\ malformed' = mal
                /\ RaisesKeyError(limit, Hits(index', limit), mal)
    /\ failed' = "record"
    /\ raised' = "KeyError"
    /\ pc' = "raised"
    /\ UNCHANGED <<intent_type, limit, embed_calls, output, consVars, normVars, otherVars>>

\* lines 260-265, collection.query raises; nothing in execute_search catches it
QueryFails ==
    /\ pc = "querying"
    /\ query_calls' = query_calls + 1
    /\ failed' = "query"
    /\ raised' = "query failed"
    /\ pc' = "raised"
    /\ UNCHANGED <<intent_type, limit, embed_calls, output, index, malformed,
                   consVars, normVars, otherVars>>

Next ==
    \/ ExecuteSearch
    \/ GetEmbedding
    \/ GetEmbeddingFails
    \/ Query
    \/ QueryKeyError
    \/ QueryFails

Spec == Init /\ [][Next]_vars

-----------------------------------------------------------------------------
(* SpecFilter: lines 237-241 of execute_search, the three filter builders *)

\* The instants a time range may hold: both halves of each second 1..MaxDate
Instants == 2..(2 * MaxDate + 1)
OptionalInstants == {Absent} \cup {Given(h) : h \in Instants}
TimeRanges ==
    {Absent} \cup {Given([start |-> s, end |-> e]) : s \in OptionalInstants,
                                                      e \in OptionalInstants}

InitFilter ==
    /\ ExecOff /\ ConsOff /\ NormOff /\ CraftOff /\ ChainOff /\ RestOff
    /\ fpc = {}
    /\ \E n \in 0..MaxTokens : companies \in [1..n -> CompanyTokens]
    /\ time_range \in TimeRanges
    /\ company_filter = NoFilter /\ date_filter = NoFilter /\ where_filter = NoFilter

\* line 238
BuildCompanyFilterCall ==
    /\ fpc = {}
    /\ company_filter' = BuildCompanyFilter(companies)
    /\ fpc' = {"company"}
    /\ UNCHANGED <<companies, time_range, date_filter, where_filter,
                   execVars, consVars, normVars, craftVars, chainVars, restVars>>

\* lines 239-240
BuildDateFilterCall ==
    /\ fpc = {"company"}
    /\ date_filter' = BuildDateFilter(time_range)
    /\ fpc' = {"company", "date"}
    /\ UNCHANGED <<companies, time_range, company_filter, where_filter,
                   execVars, consVars, normVars, craftVars, chainVars, restVars>>

\* line 241
CombineFiltersCall ==
    /\ fpc = {"company", "date"}
    /\ where_filter' = CombineFilters(<<company_filter, date_filter>>)
    /\ fpc' = {"company", "date", "combine"}
    /\ UNCHANGED <<companies, time_range, company_filter, date_filter,
                   execVars, consVars, normVars, craftVars, chainVars, restVars>>

NextFilter == BuildCompanyFilterCall \/ BuildDateFilterCall \/ CombineFiltersCall

SpecFilter == InitFilter /\ [][NextFilter]_vars

-----------------------------------------------------------------------------
(* SpecCrafter: one invocation of ResponseCrafter.craft_response *)

\* The payloads craft_response is given: those of execute_search, an error
\* payload and an empty payload
CrafterResults(n) ==
    [1..n -> [company : CrafterCompanies, date : Dates, distance : CrafterDistances]]
CrafterPayload(type, total, rs) ==
    [type |-> type,
     total_results |-> total,
     results |-> [i \in 1..Len(rs) |->
                    [id |-> i, company |-> rs[i].company, date |-> rs[i].date,
                     distance |-> rs[i].distance]]]

InitCrafter ==
    /\ ExecOff /\ ConsOff /\ NormOff /\ FiltOff /\ ChainOff /\ RestOff
    /\ rpc = "called"
    /\ \/ \E n \in 0..MaxResults :
            \E rs \in CrafterResults(n), total \in n..MaxResults, t \in IntentTypes :
                search_results = CrafterPayload(t, total, rs)
       \/ \E m \in ErrorMessages : search_results = ErrorPayload(m)
       \/ search_results = CrafterPayload("empty", 0, <<>>)
    /\ prompt = NoPrompt /\ response = NoResponse /\ llm_calls = 0

\* lines 67-68
CraftError ==
    /\ rpc = "called"
    /\ search_results.type = "error"
    /\ response' = ErrorResponse(search_results.message)
    /\ rpc' = "returned"
    /\ UNCHANGED <<search_results, prompt, llm_calls, execVars, consVars, normVars, filtVars, chainVars, restVars>>

CraftNoEmailsAsked ==
    /\ rpc = "called"
    /\ search_results.type # "error"
    /\ search_results.type = "empty" \/ search_results.total_results = 0
    /\ llm_calls' = llm_calls + 1
    /\ response' = NoEmailsResponse
    /\ rpc' = "returned"
    /\ UNCHANGED <<search_results, prompt, execVars, consVars, normVars, filtVars, chainVars, restVars>>

\* lines 70-71
CraftNoEmails ==
    /\ rpc = "called"
    /\ search_results.type # "error"
    /\ search_results.type = "empty" \/ search_results.total_results = 0
    /\ response' = NoEmailsResponse
    /\ rpc' = "returned"
    /\ UNCHANGED <<search_results, prompt, llm_calls, execVars, consVars, normVars, filtVars, chainVars, restVars>>

\* lines 76-79
CraftWithModel ==
    /\ rpc = "called"
    /\ search_results.type # "error"
    /\ ~(search_results.type = "empty" \/ search_results.total_results = 0)
    /\ prompt' = GetPrompt(search_results)
    /\ llm_calls' = llm_calls + 1
    /\ response' = ModelResponse
    /\ rpc' = "returned"
    /\ UNCHANGED <<search_results, execVars, consVars, normVars, filtVars, chainVars, restVars>>

NextCrafter == CraftError \/ CraftNoEmails \/ CraftWithModel

SpecCrafter == InitCrafter /\ [][NextCrafter]_vars

-----------------------------------------------------------------------------
(* SpecChain: one invocation of EnhancedEmailSearchChain.search *)

InitChain ==
    /\ ExecOff /\ ConsOff /\ NormOff /\ FiltOff /\ CraftOff /\ RestOff
    /\ spc = "idle" /\ parsed_intent = "none" /\ chain_limit = 0 /\ keywords = 0
    /\ kw = 0 /\ all_results = <<>> /\ common_ids = {} /\ embedded = <<>>
    /\ chain_results = <<>>
    /\ index_calls = 0 /\ chain_failed = "none" /\ chain_output = [type |-> "none"]

\* lines 191-197 and 255-257: search(query, limit) is called and _parse_query
\* answers; with more than one keyword the loop starts at the first keyword,
\* else the topic is the search text
ChainSearch ==
    /\ spc = "idle"
    /\ \E t \in ChainIntents, l \in 1..MaxLimit, n \in 0..MaxKeywords :
          /\ parsed_intent' = t /\ chain_limit' = l /\ keywords' = n
          /\ kw' = IF n > 1 THEN 1 ELSE 0
    /\ spc' = "embedding"
    /\ UNCHANGED <<chain_results, all_results, common_ids, embedded, index_calls, chain_failed,
                   chain_output, execVars, consVars, normVars, filtVars, craftVars, restVars>>

\* lines 203 and 259: get_embedding answers
ChainEmbed ==
    /\ spc = "embedding"
    /\ embedded' = Append(embedded, kw)
    /\ spc' = "querying"
    /\ UNCHANGED <<chain_results, parsed_intent, chain_limit, keywords, kw, all_results, common_ids,
                   index_calls, chain_failed, chain_output,
                   execVars, consVars, normVars, filtVars, craftVars, restVars>>

ChainEmbedRetried ==
    /\ spc = "embedding"
    /\ embedded' = Append(embedded, kw)
    /\ chain_failed' = "embedding"
    /\ UNCHANGED <<chain_results, spc, parsed_intent, chain_limit, keywords, kw, all_results, common_ids,
                   index_calls, chain_output,
                   execVars, consVars, normVars, filtVars, craftVars, restVars>>

\* lines 203 and 259: get_embedding raises; lines 271-273 return the error
ChainEmbedFails ==
    /\ spc = "embedding"
    /\ embedded' = Append(embedded, kw)
    /\ chain_failed' = "embedding"
    /\ chain_output' = ErrorPayload("embedding")
    /\ spc' = "returned"
    /\ UNCHANGED <<chain_results, parsed_intent, chain_limit, keywords, kw, all_results, common_ids,
                   index_calls, execVars, consVars, normVars, filtVars, craftVars, restVars>>

\* lines 206-215: the query of a keyword that is not the last answers, its
\* filtered ids are a pool, the loop goes on
ChainQueryKeyword ==
    /\ spc = "querying" /\ kw >= 1 /\ kw < keywords
    /\ index_calls' = index_calls + 1
    /\ \E m \in ChainAnswers(chain_limit) :
          all_results' = Append(all_results, IdsOf(ChainFiltered(ChainHits(m), MinRelevance)))
    /\ kw' = kw + 1
    /\ spc' = "embedding"
    /\ UNCHANGED <<chain_results, parsed_intent, chain_limit, keywords, common_ids, embedded,
                   chain_failed, chain_output,
                   execVars, consVars, normVars, filtVars, craftVars, restVars>>

\* lines 206-222 and 247-253: the query of the last keyword answers, the
\* pools are intersected; an empty intersection returns a count of 0
ChainQueryLast ==
    /\ spc = "querying" /\ kw >= 1 /\ kw = keywords
    /\ index_calls' = index_calls + 1
    /\ \E m \in ChainAnswers(chain_limit) :
          all_results' = Append(all_results, IdsOf(ChainFiltered(ChainHits(m), MinRelevance)))
    /\ common_ids' = CommonIds(all_results')
    /\ IF common_ids' # {}
       THEN spc' = "getting" /\ UNCHANGED chain_output
       ELSE spc' = "returned" /\ chain_output' = [type |-> "count", count |-> 0]
    /\ UNCHANGED <<chain_results, parsed_intent, chain_limit, keywords, kw, embedded, chain_failed,
                   execVars, consVars, normVars, filtVars, craftVars, restVars>>

\* lines 261-269: the query of the topic answers; the hits are filtered and
\* formatted
ChainQuerySingle ==
    /\ spc = "querying" /\ kw = 0
    /\ index_calls' = index_calls + 1
    /\ \E m \in ChainAnswers(chain_limit) :
          \E date \in [{d \in DocIds : m[d] # 0} -> ChainDates] :
              /\ chain_results' = ChainHits(m)
              /\ chain_output' = FormatResults(ChainFiltered(chain_results', MinRelevance),
                                               date, parsed_intent)
    /\ spc' = "returned"
    /\ UNCHANGED <<parsed_intent, chain_limit, keywords, kw, all_results, common_ids,
                   embedded, chain_failed, execVars, consVars, normVars, filtVars, craftVars, restVars>>

ChainQueryFailsPartial ==
    /\ spc = "querying"
    /\ index_calls' = index_calls + 1
    /\ chain_failed' = "query"
    /\ chain_output' = IF all_results = <<>>
                       THEN ErrorPayload("query")
                       ELSE [type |-> "count",
                             count |-> Cardinality(CommonIds(all_results))]
    /\ spc' = "returned"
    /\ UNCHANGED <<chain_results, parsed_intent, chain_limit, keywords, kw, all_results, common_ids,
                   embedded, execVars, consVars, normVars, filtVars, craftVars, restVars>>

\* lines 206-211 and 261-266: collection.query raises; lines 271-273
ChainQueryFails ==
    /\ spc = "querying"
    /\ index_calls' = index_calls + 1
    /\ chain_failed' = "query"
    /\ chain_output' = ErrorPayload("query")
    /\ spc' = "returned"
    /\ UNCHANGED <<chain_results, parsed_intent, chain_limit, keywords, kw, all_results, common_ids,
                   embedded, execVars, consVars, normVars, filtVars, craftVars, restVars>>

\* lines 223-238: collection.get answers; a count intent returns the count
ChainGet ==
    /\ spc = "getting"
    /\ index_calls' = index_calls + 1
    /\ IF parsed_intent = "count"
       THEN /\ chain_output' =
                  [type |-> "count", count |-> Cardinality(common_ids),
                   individual_counts |-> [i \in 1..Len(all_results) |->
                                             Cardinality(all_results[i])]]
            /\ spc' = "returned"
       ELSE spc' = "getting_again" /\ UNCHANGED chain_output
    /\ UNCHANGED <<chain_results, parsed_intent, chain_limit, keywords, kw, all_results, common_ids,
                   embedded, chain_failed, execVars, consVars, normVars, filtVars, craftVars, restVars>>

\* lines 239-246 and 271-273: collection.get answers again; _format_results
\* is given the answer of get and raises, search returns the error
ChainGetAgain ==
    /\ spc = "getting_again"
    /\ index_calls' = index_calls + 1
    /\ chain_output' = FormatGetAnswer(GetAnswer(common_ids))
    /\ spc' = "returned"
    /\ UNCHANGED <<chain_results, parsed_intent, chain_limit, keywords, kw, all_results, common_ids,
                   embedded, chain_failed, execVars, consVars, normVars, filtVars, craftVars, restVars>>

\* lines 223-226 and 241-244: collection.get raises; lines 271-273
ChainGetFails ==
    /\ spc \in {"getting", "getting_again"}
    /\ index_calls' = index_calls + 1
    /\ chain_failed' = "get"
    /\ chain_output' = ErrorPayload("get")
    /\ spc' = "returned"
    /\ UNCHANGED <<chain_results, parsed_intent, chain_limit, keywords, kw, all_results, common_ids,
                   embedded, execVars, consVars, normVars, filtVars, craftVars, restVars>>

NextChain ==
    \/ ChainSearch
    \/ ChainEmbed
    \/ ChainEmbedFails
    \/ ChainQueryKeyword
    \/ ChainQueryLast
    \/ ChainQuerySingle
    \/ ChainQueryFails
    \/ ChainGet
    \/ ChainGetAgain
    \/ ChainGetFails

SpecChain == InitChain /\ [][NextChain]_vars

-----------------------------------------------------------------------------
(* SpecSearch: one invocation of either search entry point *)

InitSearch == Init \/ InitChain

NextSearch == Next \/ NextChain

SpecSearch == InitSearch /\ [][NextSearch]_vars

-----------------------------------------------------------------------------
(* Properties of the score functions, under SpecNormalize *)

PoolRange == IF Len(distances) = 0 THEN 0 ELSE SeqMax(distances) - SeqMin(distances)
Normalized == "normalize" \in npc
Filtered == "filter" \in npc

\* a >= b for fractions with positive denominators
FracGeq(a, b) == a.num * b.den >= b.num * a.den

\* C7: score normalisation is a per-query min-max normalisation: for a pool
\* with max distance > min distance each relevance is
\* 1 - (d - d_min)/(d_max - d_min), one value per distance in the same order.
\* (_normalize_distances does not compute this.)
C7_MinMaxNormalisation ==
    PoolRange > 0 =>
        /\ Normalized =>
            /\ Len(similarities) = Len(distances)
            /\ \A i \in 1..Len(distances) :
                  similarities[i] * PoolRange
                    = MaxExpectedDistance * (PoolRange - (distances[i] - SeqMin(distances)))
        /\ Filtered =>
            \A k \in 1..Len(filtered.indices) :
                filtered.distances[k].num * PoolRange
                    = filtered.distances[k].den
                        * (PoolRange - (distances[filtered.indices[k]] - SeqMin(distances)))

\* C8: for every pool whose maximum exceeds its minimum, every normalised
\* relevance lies in [0,1] and relevance is non-increasing in distance.
C8_InUnitIntervalAndMonotone ==
    PoolRange > 0 =>
        /\ Normalized =>
            /\ Len(similarities) = Len(distances)
            /\ \A i \in 1..Len(distances) :
                  similarities[i] >= 0 /\ similarities[i] <= MaxExpectedDistance
            /\ \A i, j \in 1..Len(distances) :
                  distances[i] <= distances[j] => similarities[i] >= similarities[j]
        /\ Filtered =>
            /\ Len(filtered.distances) = Len(filtered.indices)
            /\ \A k \in 1..Len(filtered.indices) :
                  /\ filtered.distances[k].den > 0
                  /\ filtered.distances[k].num >= 0
                  /\ filtered.distances[k].num <= filtered.distances[k].den
            /\ \A k, l \in 1..Len(filtered.indices) :
                  distances[filtered.indices[k]] <= distances[filtered.indices[l]]
                    => FracGeq(filtered.distances[k], filtered.distances[l])

\* C8 witness: both functions returned on a pool with a positive range, where a
\* similarity was clamped to 0 and the filter kept several candidates
C8_Witness ==
    /\ Normalized /\ Filtered /\ PoolRange > 0
    /\ \E i \in 1..Len(distances) : distances[i] > MaxExpectedDistance
    /\ Len(filtered.indices) >= 2
    /\ \E k \in 1..Len(filtered.indices) :
          filtered.distances[k].num < filtered.distances[k].den

\* C9: if all distances of the pool are equal (a single candidate included),
\* every normalised relevance is exactly 1.0.
\* (_normalize_distances gives max(0, 1 - d/300) instead.)
C9_EqualDistancesGiveOne ==
    (Len(distances) > 0 /\ PoolRange = 0) =>
        /\ Normalized =>
            \A i \in 1..Len(similarities) : similarities[i] = MaxExpectedDistance
        /\ Filtered =>
            /\ Len(filtered.indices) = Len(distances)
            /\ \A k \in 1..Len(filtered.indices) :
                  filtered.distances[k].num = filtered.distances[k].den

\* The longest prefix 1..m of the positions 1..n that lies within the set ok
LongestPrefix(n, ok) ==
    [k \in 1..Cardinality({m \in 1..n : \A i \in 1..m : i \in ok}) |-> k]

-----------------------------------------------------------------------------
(* Properties of the consolidator, under SpecConsolidate *)

ConsolidateDone == cpc = "done"
SameThread(a, b) == a.thread_id # 0 /\ a.thread_id = b.thread_id
Took(b) == \E k \in 1..Len(branches) : branches[k] = b

\* C3: the output of _consolidate_results contains no two entries with the same
\* non-absent thread_id, after any sequence of skip, append and replacement
\* steps (the list being built never holds two such entries either).
C3_NoTwoEntriesOfOneThread ==
    \A i, j \in 1..Len(consolidated) :
        i # j => ~SameThread(consolidated[i], consolidated[j])

\* C3 witness: the function returned on an input holding two candidates of one
\* thread, after a replacement and with that thread in the output
C3_Witness ==
    /\ ConsolidateDone
    /\ \E i, j \in 1..Len(results) : i # j /\ SameThread(results[i], results[j])
    /\ \E k \in 1..Len(consolidated) : consolidated[k].thread_id # 0
    /\ Took("skip") /\ Took("replace")

\* C4: of every thread of the input, only a candidate with the greatest date of
\* that thread can appear in the output; given two candidates with the same
\* thread_id and different dates, exactly the more recent one is kept.
C4_OnlyMostRecentOfThread ==
    /\ \A k \in 1..Len(consolidated) :
          consolidated[k].thread_id # 0 =>
              \A i \in 1..Len(results) :
                  SameThread(results[i], consolidated[k])
                      => results[i].date <= consolidated[k].date
    /\ (/\ ConsolidateDone /\ Len(results) = 2
        /\ SameThread(results[1], results[2])
        /\ results[1].date # results[2].date)
          => consolidated = << IF results[1].date > results[2].date
                               THEN results[1] ELSE results[2] >>

\* C4 witness: the function returned on two candidates of one thread with
\* different dates, the more recent being the less similar one
C4_Witness ==
    /\ ConsolidateDone /\ Len(results) = 2
    /\ SameThread(results[1], results[2])
    /\ results[1].date < results[2].date
    /\ results[1].similarity > results[2].similarity
    /\ Len(consolidated) = 1

\* C5: given two candidates of different threads whose relevance scores differ
\* by less than 0.05, the consolidator outputs exactly one of them, the one
\* with the higher relevance, whichever of the two is the more recent.
C5_NearDuplicatesKeepHigher ==
    (/\ ConsolidateDone /\ Len(results) = 2
     /\ ~SameThread(results[1], results[2])
     /\ Abs(results[1].similarity - results[2].similarity) * 100
            < 5 * MaxExpectedDistance)
      => /\ Len(consolidated) = 1
         /\ consolidated[1] \in {results[1], results[2]}
         /\ consolidated[1].similarity >= results[1].similarity
         /\ consolidated[1].similarity >= results[2].similarity

\* C5 witness: relevance 0.83 and 0.81, the more relevant one being the older,
\* so that it replaced the more recent one
C5_Witness ==
    /\ ConsolidateDone /\ Len(results) = 2
    /\ ~SameThread(results[1], results[2])
    /\ results[1].similarity = 249 /\ results[2].similarity = 243
    /\ results[1].date < results[2].date
    /\ Took("replace")
    /\ consolidated = <<results[1]>>

-----------------------------------------------------------------------------
(* Properties of execute_search, under Spec *)

Returned == pc = "returned"

\* C1: the public search entry point never lets an exception escape: whenever
\* the embedding call or the index query fails, the call returns a payload of
\* type 'error'.  (execute_search has no handler: the exception leaves it.)
C1_FailureReturnsErrorPayload ==
    failed # "none" =>
        /\ pc # "raised" /\ raised = "none"
        /\ (Returned => output.type = "error")

\* C2: whenever no candidate survives a search, the returned payload has type
\* 'empty' for every intent type.  (execute_search returns the intent's type
\* with an empty result list.)
C2_NoSurvivorGivesEmptyPayload ==
    (Returned /\ output.consolidated_results = 0) => output.type = "empty"

\* C6: for list and summary intents the results of the payload are ordered by
\* descending relevance (non-decreasing distance).  (The consolidator re-sorts
\* by date and execute_search returns its order.)
C6_ResultsByDescendingRelevance ==
    (Returned /\ intent_type \in {"list", "summary"}) =>
        \A i, j \in 1..Len(output.results) :
            i < j => output.results[i].distance <= output.results[j].distance

-----------------------------------------------------------------------------
(* Properties of the filter builders, under SpecFilter *)

CompanyFilterBuilt == "company" \in fpc
DateFilterBuilt == "date" \in fpc
FiltersCombined == "combine" \in fpc

\* The registry keys a token canonicalises to: the keys it equals and the keys
\* of the companies it is a registered domain or pattern of, case-insensitively
CanonicalKeys(token) ==
    {k \in DOMAIN COMPANIES :
        \/ Lower(token) = k
        \/ Lower(token) \in {Lower(v) : v \in SeqToSet(COMPANIES[k].domains)
                                              \cup SeqToSet(COMPANIES[k].patterns)}}
CanonicalKeysOf(tokens) == UNION {CanonicalKeys(tokens[i]) : i \in 1..Len(tokens)}

\* The registry keys a company predicate constrains the query to
KeysOf(f) == IF f.kind = "in" THEN SeqToSet(f.values) ELSE {}

\* C12: the company predicate is constrained to exactly the registry keys the
\* supplied tokens canonicalise to; a token that is neither a key nor a
\* registered alias or domain adds no key.
\* (The token "domains" is neither and adds every key; see also C13.)
C12_ExactlyTheCanonicalKeys ==
    CompanyFilterBuilt =>
        /\ KeysOf(company_filter) = CanonicalKeysOf(companies)
        /\ company_filter = NoFilter <=> CanonicalKeysOf(companies) = {}

\* C13: a token that equals, case-insensitively, a registry key or a
\* registered alias or domain of a company is mapped to that company's key.
\* (A registered domain or pattern such as "mckinsey.com" is not mapped.)
C13_KeyOrAliasMapsToKey ==
    CompanyFilterBuilt =>
        \A i \in 1..Len(companies) :
            \A k \in CanonicalKeys(companies[i]) :
                company_filter.kind = "in" /\ k \in SeqToSet(company_filter.values)

\* The second of the instant an optional instant holds
SecondOf(o) == CHOOSE t \in 0..(MaxDate + 1) : 2 * t <= ValueOf(o) /\ ValueOf(o) < 2 * t + 2

\* C14: the time filter is no filter when neither start nor end is set,
\* date >= start when only start is set, date <= end when only end is set, and
\* the conjunction of both bounds when both are set, in unix seconds.
C14_TimeFilter ==
    DateFilterBuilt =>
        LET start == IF IsGiven(time_range) THEN ValueOf(time_range).start ELSE Absent
            end == IF IsGiven(time_range) THEN ValueOf(time_range).end ELSE Absent
            lower == [kind |-> "cmp", field |-> "date", op |-> "$gte",
                      value |-> SecondOf(start)]
            upper == [kind |-> "cmp", field |-> "date", op |-> "$lte",
                      value |-> SecondOf(end)]
        IN  /\ (~IsGiven(start) /\ ~IsGiven(end)) => date_filter = [kind |-> "none"]
            /\ (IsGiven(start) /\ ~IsGiven(end)) => date_filter = lower
            /\ (~IsGiven(start) /\ IsGiven(end)) => date_filter = upper
            /\ (IsGiven(start) /\ IsGiven(end)) =>
                  date_filter = [kind |-> "and", parts |-> <<lower, upper>>]

\* C14 witness: the time filter was built from a range with both bounds set,
\* the start in the second half of its second
C14_Witness ==
    /\ DateFilterBuilt
    /\ date_filter.kind = "and"
    /\ IsGiven(time_range)
    /\ ValueOf(ValueOf(time_range).start) % 2 = 1
    /\ ValueOf(ValueOf(time_range).start) < ValueOf(ValueOf(time_range).end)

\* A time bound is set
TimeBoundSet ==
    IsGiven(time_range)
        /\ (IsGiven(ValueOf(time_range).start) \/ IsGiven(ValueOf(time_range).end))

\* C15: the query predicate is the AND of exactly the non-null filters
\* (company, time): absent exactly when no company token canonicalises to a
\* registry key and no time bound is set, the single filter itself when only
\* one is non-null, and never a predicate that matches nothing (an empty key
\* list).
\* (A token that is a registered domain or pattern canonicalises to a key
\* and leaves the predicate absent, because of C13.)
C15_AndOfNonNullFilters ==
    FiltersCombined =>
        /\ where_filter = [kind |-> "none"]
              <=> (CanonicalKeysOf(companies) = {} /\ ~TimeBoundSet)
        /\ (company_filter # NoFilter /\ date_filter = NoFilter)
              => where_filter = company_filter
        /\ (company_filter = NoFilter /\ date_filter # NoFilter)
              => where_filter = date_filter
        /\ (company_filter # NoFilter /\ date_filter # NoFilter)
              => where_filter = [kind |-> "and", parts |-> <<company_filter, date_filter>>]
        /\ company_filter.kind = "in" => company_filter.values # <<>>

-----------------------------------------------------------------------------
(* Properties of the payload of execute_search, under Spec *)

\* The candidates that remain after consolidation of the whole collection
ConsolidatedIndex == ConsolidateResults(CombinedResults(index))

\* C16: for a count intent the payload reports the number of candidates that
\* remain after consolidation, the same number for every value of limit on
\* the same index contents.
\* (The query asks the index for n_results = limit hits, so the numbers of the
\* payload count at most limit candidates.)
C16_CountIndependentOfLimit ==
    (Returned /\ intent_type = "count" /\ malformed = WellFormed) =>
        output.consolidated_results = Len(ConsolidatedIndex)

\* C19: a retrieved record that lacks a required metadata field is skipped
\* while the remaining records are processed: the query does not abort and the
\* payload holds the results built from the well-formed records.
\* (The KeyError of the first missing field leaves execute_search.)
C19_MalformedRecordSkipped ==
    /\ failed # "record"
    /\ Returned =>
          output = SearchOutput(intent_type, limit,
                                WithoutMalformed(Hits(index, limit), malformed))

-----------------------------------------------------------------------------
(* Properties of the selection of the crafter, under SpecCrafter *)

Crafted == rpc = "returned" /\ response = ModelResponse
CompaniesOf(rs) == {rs[i].company : i \in 1..Len(rs)}

\* C17: for a trend intent the selected entries contain exactly one entry per
\* distinct company present in the results, and each selected entry has the
\* greatest date among the entries of its company.
C17_OneMostRecentEntryPerCompany ==
    (Crafted /\ search_results.type = "trend") =>
        LET rs == search_results.results
            sel == prompt.details
        IN  /\ CompaniesOf(sel) = CompaniesOf(rs)
            /\ Len(sel) = Cardinality(CompaniesOf(rs))
            /\ \A k \in 1..Len(sel) :
                  /\ \E i \in 1..Len(rs) : rs[i] = sel[k]
                  /\ \A i \in 1..Len(rs) :
                        rs[i].company = sel[k].company => rs[i].date <= sel[k].date

\* C17 witness: a trend payload with two entries of one company, the later
\* one in the list the more recent, and one entry of another company
C17_Witness ==
    /\ Crafted /\ search_results.type = "trend"
    /\ Len(search_results.results) = 3
    /\ Len(prompt.details) = 2
    /\ \E i, j \in 1..3 :
          /\ i < j
          /\ search_results.results[i].company = search_results.results[j].company
          /\ search_results.results[i].date < search_results.results[j].date

-----------------------------------------------------------------------------
(* Properties of EnhancedEmailSearchChain.search, under SpecChain *)

ChainReturned == spc = "returned"
PoolsComplete == keywords > 1 /\ Len(all_results) = keywords

\* C11: in multi-keyword mode the qualifying ids are exactly the intersection
\* of the per-keyword id pools: an id qualifies iff it is in every pool; if a
\* pool is empty the intersection is empty and the search returns a count of
\* zero, not an error.
C11_QualifyingIdsAreTheIntersection ==
    PoolsComplete =>
        /\ \A d \in DocIds :
              d \in common_ids <=> \A i \in 1..keywords : d \in all_results[i]
        /\ (ChainReturned /\ chain_output.type = "count") =>
              chain_output.count
                  = Cardinality({d \in DocIds : \A i \in 1..keywords : d \in all_results[i]})
        /\ (\E i \in 1..keywords : all_results[i] = {}) =>
              /\ common_ids = {}
              /\ ChainReturned
              /\ chain_output = [type |-> "count", count |-> 0]

\* C11 witness: a multi-keyword count returned the size of an intersection
\* smaller than each of two different pools
C11_Witness ==
    /\ PoolsComplete /\ ChainReturned /\ chain_failed = "none"
    /\ parsed_intent = "count"
    /\ all_results[1] # all_results[2]
    /\ common_ids # {}
    /\ common_ids # all_results[1] /\ common_ids # all_results[2]
    /\ chain_output.count = Cardinality(common_ids)

\* C18: for a timeline intent the payload's results are the first limit
\* candidates, re-sorted so that dates are non-decreasing from first to last.
\* (The results of the chain are sorted by reported relevance for every
\* intent but count, and are not cut to limit.)
C18_TimelineByAscendingDate ==
    (ChainReturned /\ parsed_intent = "timeline" /\ chain_output.type = "timeline") =>
        /\ Len(chain_output.results) <= chain_limit
        /\ \A i, j \in 1..Len(chain_output.results) :
              i < j => chain_output.results[i].date <= chain_output.results[j].date

-----------------------------------------------------------------------------
(* Properties of both search entry points, under SpecSearch *)

\* A call to the embedding service or to the index is made in this step
CallMade ==
    \/ embed_calls' # embed_calls
    \/ query_calls' # query_calls
    \/ embedded' # embedded
    \/ index_calls' # index_calls

\* Each search text was given to the embedding service at most once
EmbeddedAtMostOnce ==
    /\ embed_calls <= 1
    /\ \A i, j \in 1..Len(embedded) : i < j => embedded[i] # embedded[j]

\* C20: within one search invocation a failed embedding call or index query
\* is never retried: after the first failure of either service no further
\* call to the embedding service or the index is made, and each search text
\* is embedded at most once.
C20_FailedCallNeverRetried ==
    /\ []EmbeddedAtMostOnce
    /\ [][(failed # "none" \/ chain_failed # "none") => ~CallMade]_vars

\* C20 witness: the query of the second keyword failed after two embeddings
\* and one answered query, and the search returned
C20_Witness ==
    /\ ChainReturned
    /\ chain_failed = "query"
    /\ embedded = <<1, 2>>
    /\ index_calls = 2

\* C21: craft_response returns 'Error: <message>' for a payload of type
\* 'error' and 'No emails found matching your query.' for a payload of type
\* 'empty' or with total_results equal to 0, in both cases without calling
\* the language model.
C21_ErrorAndEmptyWithoutModel ==
    rpc = "returned" =>
        IF search_results.type = "error"
        THEN response = <<"Error: ", search_results.message>> /\ llm_calls = 0
        ELSE (search_results.type = "empty" \/ search_results.total_results = 0) =>
                /\ response = <<"No emails found matching your query.">>
                /\ llm_calls = 0

\* C21 witness: craft_response returned for a payload of an intent type whose
\* total_results is 0
C21_Witness ==
    /\ rpc = "returned"
    /\ search_results.type \in IntentTypes
    /\ search_results.total_results = 0
    /\ response = NoEmailsResponse

-----------------------------------------------------------------------------
(* Properties of the payload of execute_search, under Spec (continued) *)

\* The consolidated sequence of the hits the query returned
ConsolidatedHits == ConsolidateResults(CombinedResults(Hits(index, limit)))

\* C22: for list and summary intents the payload's results are exactly the
\* first min(limit, n) entries of the consolidated sequence of n candidates,
\* returned_results is the number of results in the payload, and
\* returned_results <= consolidated_results <= total_results.
C22_FirstLimitOfConsolidated ==
    (Returned /\ intent_type \in {"list", "summary"}) =>
        LET cons == ConsolidatedHits
            n == Len(cons)
            m == IF limit < n THEN limit ELSE n
        IN  /\ Len(output.results) = m
            /\ \A i \in 1..m :
                  /\ output.results[i].id = cons[i].id
                  /\ output.results[i].date = cons[i].date
                  /\ output.results[i].thread_id = cons[i].thread_id
            /\ output.returned_results = Len(output.results)
            /\ output.returned_results <= output.consolidated_results
            /\ output.consolidated_results <= output.total_results
            /\ output.consolidated_results = n

\* C22 witness: a list payload whose hits consolidation reduced
C22_Witness ==
    /\ Returned /\ intent_type = "list"
    /\ output.total_results > output.consolidated_results
    /\ output.returned_results >= 1

-----------------------------------------------------------------------------
(* Properties of the consolidator, under SpecConsolidate (continued) *)

\* The candidates the loop has processed are sorted_results[1..Processed]
Processed == Len(branches)

\* The first candidate of the thread of sorted_results[i]
FirstOfThread(i) ==
    CHOOSE j \in 1..i : /\ sorted_results[j].thread_id = sorted_results[i].thread_id
                        /\ \A k \in 1..(j - 1) :
                              sorted_results[k].thread_id # sorted_results[i].thread_id

\* C23: when a new candidate is a near-duplicate of an accepted entry and has
\* the higher relevance, it replaces that entry in place: it takes the
\* position of the replaced entry and the order of the other entries is
\* unchanged.
\* (The code removes the entry and appends the candidate at the end.)
C23_ReplacedInPlace ==
    [][(AtCandidate /\ BranchOf(consolidated, seen_threads, Candidate) = "replace") =>
          /\ Len(consolidated') = Len(consolidated)
          /\ \A k \in 1..Len(consolidated) :
                consolidated'[k] = IF k = FirstSimilar(consolidated, Candidate)
                                   THEN Candidate
                                   ELSE consolidated[k]]_vars

\* C24: the thread id of every processed candidate that has one is recorded
\* as seen, whether the candidate was appended, replaced an entry or was
\* dropped as the weaker near-duplicate; every later candidate of the thread
\* is skipped, so a thread whose most recent chunk was dropped or later
\* replaced has no entry in the output.
C24_ThreadSeenOnEveryBranch ==
    cpc \in {"loop", "done"} =>
        /\ \A i \in 1..Processed :
              sorted_results[i].thread_id # 0 =>
                  /\ sorted_results[i].thread_id \in seen_threads
                  /\ branches[i] = "skip" <=> FirstOfThread(i) # i
                  /\ branches[FirstOfThread(i)] = "keep" =>
                        \A k \in 1..Len(consolidated) :
                            consolidated[k].thread_id # sorted_results[i].thread_id
        /\ \A k \in 1..Len(consolidated) :
              consolidated[k].thread_id # 0 =>
                  \E i \in 1..Processed :
                      /\ sorted_results[i] = consolidated[k]
                      /\ FirstOfThread(i) = i
        /\ \A i \in 1..Processed :
              (sorted_results[i].thread_id = 0) => branches[i] # "skip"

\* C24 witness: the most recent candidate of a thread was dropped as the
\* weaker near-duplicate, a later candidate of the thread was skipped, and the
\* thread has no entry in the output
C24_Witness ==
    /\ ConsolidateDone
    /\ \E i, j \in 1..Processed :
          /\ i < j
          /\ branches[i] = "keep" /\ branches[j] = "skip"
          /\ SameThread(sorted_results[i], sorted_results[j])
          /\ \A k \in 1..Len(consolidated) :
                consolidated[k].thread_id # sorted_results[i].thread_id

\* C28: the output of the consolidator contains no two near-duplicates: any
\* two distinct output entries differ in relevance by at least 0.05, also
\* after a replacement step.
\* (A candidate that replaces an entry is not compared with the other
\* accepted entries.)
C28_NoTwoNearDuplicates ==
    ConsolidateDone =>
        \A i, j \in 1..Len(consolidated) :
            i # j => Abs(consolidated[i].similarity - consolidated[j].similarity) * 100
                        >= 5 * MaxExpectedDistance

-----------------------------------------------------------------------------
(* Properties of EnhancedEmailSearchChain.search, under SpecChain (continued) *)

\* C26: in multi-keyword mode with a non-empty intersection and an intent
\* that is not count, the records are fetched again by id and the payload
\* contains exactly one result per id of the intersection (its count is the
\* size of the intersection) and no result for an id outside it.
\* (_format_results reads the answer of collection.get as if it were the
\* answer of collection.query and raises; the payload is an error.)
C26_OneResultPerCommonId ==
    (ChainReturned /\ PoolsComplete /\ common_ids # {}
        /\ parsed_intent # "count" /\ chain_failed = "none") =>
        /\ index_calls = keywords + 2
        /\ chain_output.type = parsed_intent
        /\ chain_output.count = Cardinality(common_ids)
        /\ Len(chain_output.results) = Cardinality(common_ids)
        /\ IdsOf(chain_output.results) = common_ids

\* A retrieval of a keyword failed: its embedding or its query raised
RetrievalFailed == keywords > 1 /\ chain_failed \in {"embedding", "query"}

\* C27: in multi-keyword mode the intersection is computed only after the
\* retrieval of every keyword has completed; if the retrieval of a keyword
\* fails the search returns an error payload, never a count or a list derived
\* from the intersection of the keywords retrieved so far.
C27_IntersectionAfterEveryRetrieval ==
    keywords > 1 =>
        /\ (common_ids # {} \/ spc \in {"getting", "getting_again"}) => PoolsComplete
        /\ (ChainReturned /\ chain_output.type # "error") =>
              PoolsComplete /\ chain_failed = "none"
        /\ RetrievalFailed =>
              /\ ChainReturned
              /\ chain_output.type = "error"
              /\ common_ids = {}
              /\ Len(all_results) < keywords

\* C27 witness: the query of the second keyword failed after the first
\* keyword gave a pool that is not empty, and the search returned an error
C27_Witness ==
    /\ RetrievalFailed /\ chain_failed = "query"
    /\ Len(all_results) = 1 /\ all_results[1] # {}
    /\ ChainReturned /\ chain_output.type = "error"

\* The raw distance of a hit of the query of the topic
RawDistance(d) ==
    LET k == CHOOSE i \in 1..Len(chain_results) : chain_results[i].id = d
    IN  chain_results[k].distance

\* C25: in the payload of EnhancedEmailSearchChain.search for the intents
\* that are not count, the relevance reported for each result is in [0,1]
\* and is higher for more relevant candidates: a candidate with a smaller raw
\* distance never gets a lower reported relevance than one with a larger raw
\* distance, so the closest candidate is listed first.
\* (The reported relevance is 1 / (1 + score) of the min-max score, which is
\* 1 for the closest hit: the closest hit is reported 0.5 and every other
\* kept hit more.)
C25_ReportedRelevanceFollowsDistance ==
    (ChainReturned /\ keywords <= 1 /\ chain_failed = "none"
        /\ chain_output.type \notin {"count", "error"}) =>
        LET rs == chain_output.results
        IN  /\ \A i \in 1..Len(rs) : rs[i].relevance \in 0..1000
            /\ \A i, j \in 1..Len(rs) :
                  RawDistance(rs[i].id) < RawDistance(rs[j].id) =>
                      rs[i].relevance >= rs[j].relevance
            /\ \A i \in 1..Len(rs) : RawDistance(rs[1].id) <= RawDistance(rs[i].id)

-----------------------------------------------------------------------------
(* chunk_email, src/src/email/email_processor.py lines 49-82 *)

MaxSubject == 1     \* longest subject
MaxContent == 4     \* longest content
MaxChunk == 3       \* largest chunk_size - prefix_len
MaxOverlap == 2     \* largest overlap
MaxChunks == 6      \* iterations of the while loop that are followed

\* A string is a sequence of characters
NewLine == "\n"
ContentChars == {"a", NewLine}
None == "None"

Min(a, b) == IF a <= b THEN a ELSE b

\* An index of a slice of a string of length n: Python counts a negative
\* index from the end and clips the index to the string
Clip(i, n) == IF i < 0 THEN Max(i + n, 0) ELSE Min(i, n)

\* str[a:b]
Slice(str, a, b) ==
    LET lo == Clip(a, Len(str))
        hi == Clip(b, Len(str))
    IN  IF lo < hi THEN SubSeq(str, lo + 1, hi) ELSE <<>>

\* str.rfind('\n', a, b): the highest index of a line break within str[a:b],
\* -1 if there is none
RFind(str, a, b) ==
    LET lo == Clip(a, Len(str))
        hi == Clip(b, Len(str))
        found == {i \in lo..(hi - 1) : str[i + 1] = NewLine}
    IN  IF found = {} THEN 0 - 1 ELSE CHOOSE i \in found : \A j \in found : j <= i

\* line 54: prefix = f"Subject: {subject}\n\n"
Prefix(subj) == <<"S", "u", "b", "j", "e", "c", "t", ":", " ">> \o subj \o <<NewLine, NewLine>>

\* line 57
ContentChunkSize == chunk_size - Len(Prefix(subject))

\* line 64
Breakpoint == RFind(content, chunk_start, chunk_start + ContentChunkSize)

\* lines 62-66: the chunk is cut at the last line break when there is one
\* after start and the chunk does not reach the end of the content
CutAtBreakpoint ==
    /\ chunk_start + ContentChunkSize < Len(content)
    /\ Breakpoint > chunk_start

\* lines 68-73
Chunk(chunk_end) ==
    [text |-> Prefix(subject) \o Slice(content, chunk_start, chunk_end),
     position |-> position,
     total_chunks |-> None]

InitChunk ==
    /\ ExecOff /\ ConsOff /\ NormOff /\ FiltOff /\ CraftOff /\ ChainOff /\ RegistryOff
    /\ kpc = "called"
    /\ \E n \in 0..MaxSubject : subject = [i \in 1..n |-> "s"]
    /\ \E n \in 0..MaxContent : content \in [1..n -> ContentChars]
    /\ \E size \in 1..MaxChunk : chunk_size = Len(Prefix(subject)) + size
    /\ overlap \in 0..MaxOverlap
    /\ chunk_start = 0 /\ position = 0 /\ chunks = <<>>

\* lines 53-59
ChunkEmail ==
    /\ kpc = "called"
    /\ chunks' = <<>> /\ chunk_start' = 0 /\ position' = 0
    /\ kpc' = "loop"
    /\ UNCHANGED <<subject, content, chunk_size, overlap, registryVars,
                   execVars, consVars, normVars, filtVars, craftVars, chainVars>>

\* lines 61-76, an iteration that cuts the chunk at a line break
ChunkAtBreakpoint ==
    /\ kpc = "loop" /\ chunk_start < Len(content) /\ position < MaxChunks
    /\ CutAtBreakpoint
    /\ chunks' = Append(chunks, Chunk(Breakpoint))
    /\ chunk_start' = Breakpoint - overlap
    /\ position' = position + 1
    /\ UNCHANGED <<kpc, subject, content, chunk_size, overlap, registryVars,
                   execVars, consVars, normVars, filtVars, craftVars, chainVars>>

\* lines 61-76, an iteration that cuts the chunk at its size
ChunkAtSize ==
    /\ kpc = "loop" /\ chunk_start < Len(content) /\ position < MaxChunks
    /\ ~CutAtBreakpoint
    /\ chunks' = Append(chunks, Chunk(chunk_start + ContentChunkSize))
    /\ chunk_start' = chunk_start + ContentChunkSize - overlap
    /\ position' = position + 1
    /\ UNCHANGED <<kpc, subject, content, chunk_size, overlap, registryVars,
                   execVars, consVars, normVars, filtVars, craftVars, chainVars>>

\* lines 78-82
ChunkReturn ==
    /\ kpc = "loop" /\ chunk_start >= Len(content)
    /\ chunks' = [i \in 1..Len(chunks) |-> [chunks[i] EXCEPT !.total_chunks = Len(chunks)]]
    /\ kpc' = "returned"
    /\ UNCHANGED <<subject, content, chunk_size, overlap, chunk_start, position,
                   registryVars,
                   execVars, consVars, normVars, filtVars, craftVars, chainVars>>

NextChunk == ChunkEmail \/ ChunkAtBreakpoint \/ ChunkAtSize \/ ChunkReturn

SpecChunk == InitChunk /\ [][NextChunk]_vars

\* The condition under which the chunks are said to advance
ChunkLargerThanOverlap == chunk_size > Len(Prefix(subject)) + overlap

\* C29: chunk_email terminates for every subject and content when chunk_size
\* is larger than the length of the prefix plus overlap: start strictly
\* increases on every iteration of the loop (it never stays or goes negative
\* after the cut at a line break and the step back by overlap); the chunks
\* returned have the positions 0 .. total_chunks - 1, total_chunks being the
\* number of chunks.
\* (A chunk cut at a line break at most overlap characters after start steps
\* back to start or before it.)
C29_StartStrictlyIncreases ==
    /\ [](ChunkLargerThanOverlap /\ kpc = "returned" =>
            \A i \in 1..Len(chunks) :
                chunks[i].position = i - 1 /\ chunks[i].total_chunks = Len(chunks))
    /\ [][(ChunkLargerThanOverlap /\ kpc = "loop" /\ chunk_start < Len(content)) =>
            (chunk_start' > chunk_start /\ chunk_start' >= 0)]_vars

-----------------------------------------------------------------------------
(* CompanyRegistry.match_sender, src/src/search/company_registry.py lines 78-103 *)

\* The characters of the domains and patterns of COMPANIES
Chars(s) ==
    CASE s = "mckinsey.com" -> <<"m", "c", "k", "i", "n", "s", "e", "y", ".", "c", "o", "m">>
      [] s = "email.mckinsey.com" -> <<"e", "m", "a", "i", "l", ".", "m", "c", "k", "i", "n", "s", "e", "y", ".", "c", "o", "m">>
      [] s = "mckinsey" -> <<"m", "c", "k", "i", "n", "s", "e", "y">>
      [] s = "mck@" -> <<"m", "c", "k", "@">>
      [] s = "bcg.com" -> <<"b", "c", "g", ".", "c", "o", "m">>
      [] s = "email.bcg.com" -> <<"e", "m", "a", "i", "l", ".", "b", "c", "g", ".", "c", "o", "m">>
      [] s = "@bcg" -> <<"@", "b", "c", "g">>
      [] s = "boston consult" -> <<"b", "o", "s", "t", "o", "n", " ", "c", "o", "n", "s", "u", "l", "t">>
      [] s = "bain.com" -> <<"b", "a", "i", "n", ".", "c", "o", "m">>
      [] s = "@bain" -> <<"@", "b", "a", "i", "n">>
      [] s = "bain &" -> <<"b", "a", "i", "n", " ", "&">>
      [] s = "deloitte.com" -> <<"d", "e", "l", "o", "i", "t", "t", "e", ".", "c", "o", "m">>
      [] s = "email.deloitte.com" -> <<"e", "m", "a", "i", "l", ".", "d", "e", "l", "o", "i", "t", "t", "e", ".", "c", "o", "m">>
      [] s = "@deloitte" -> <<"@", "d", "e", "l", "o", "i", "t", "t", "e">>
      [] s = "pwc.com" -> <<"p", "w", "c", ".", "c", "o", "m">>
      [] s = "@pwc" -> <<"@", "p", "w", "c">>
      [] s = "pricewaterhouse" -> <<"p", "r", "i", "c", "e", "w", "a", "t", "e", "r", "h", "o", "u", "s", "e">>
      [] s = "ey.com" -> <<"e", "y", ".", "c", "o", "m">>
      [] s = "@ey" -> <<"@", "e", "y">>
      [] s = "ernst & young" -> <<"e", "r", "n", "s", "t", " ", "&", " ", "y", "o", "u", "n", "g">>
      [] s = "kpmg.com" -> <<"k", "p", "m", "g", ".", "c", "o", "m">>
      [] s = "@kpmg" -> <<"@", "k", "p", "m", "g">>
      [] s = "meta.com" -> <<"m", "e", "t", "a", ".", "c", "o", "m">>
      [] s = "fb.com" -> <<"f", "b", ".", "c", "o", "m">>
      [] s = "facebook.com" -> <<"f", "a", "c", "e", "b", "o", "o", "k", ".", "c", "o", "m">>
      [] s = "instagram.com" -> <<"i", "n", "s", "t", "a", "g", "r", "a", "m", ".", "c", "o", "m">>
      [] s = "whatsapp.com" -> <<"w", "h", "a", "t", "s", "a", "p", "p", ".", "c", "o", "m">>
      [] s = "@meta" -> <<"@", "m", "e", "t", "a">>
      [] s = "@fb" -> <<"@", "f", "b">>
      [] s = "@facebook" -> <<"@", "f", "a", "c", "e", "b", "o", "o", "k">>
      [] s = "@instagram" -> <<"@", "i", "n", "s", "t", "a", "g", "r", "a", "m">>
      [] s = "@whatsapp" -> <<"@", "w", "h", "a", "t", "s", "a", "p", "p">>
      [] s = "apple.com" -> <<"a", "p", "p", "l", "e", ".", "c", "o", "m">>
      [] s = "@apple" -> <<"@", "a", "p", "p", "l", "e">>
      [] s = "amazon.com" -> <<"a", "m", "a", "z", "o", "n", ".", "c", "o", "m">>
      [] s = "aws.amazon.com" -> <<"a", "w", "s", ".", "a", "m", "a", "z", "o", "n", ".", "c", "o", "m">>
      [] s = "aws.com" -> <<"a", "w", "s", ".", "c", "o", "m">>
      [] s = "@amazon" -> <<"@", "a", "m", "a", "z", "o", "n">>
      [] s = "@aws" -> <<"@", "a", "w", "s">>
      [] s = "netflix.com" -> <<"n", "e", "t", "f", "l", "i", "x", ".", "c", "o", "m">>
      [] s = "@netflix" -> <<"@", "n", "e", "t", "f", "l", "i", "x">>
      [] s = "google.com" -> <<"g", "o", "o", "g", "l", "e", ".", "c", "o", "m">>
      [] s = "alphabet.com" -> <<"a", "l", "p", "h", "a", "b", "e", "t", ".", "c", "o", "m">>
      [] s = "gmail.com" -> <<"g", "m", "a", "i", "l", ".", "c", "o", "m">>
      [] s = "@google" -> <<"@", "g", "o", "o", "g", "l", "e">>
      [] s = "@alphabet" -> <<"@", "a", "l", "p", "h", "a", "b", "e", "t">>
      [] s = "microsoft.com" -> <<"m", "i", "c", "r", "o", "s", "o", "f", "t", ".", "c", "o", "m">>
      [] s = "ms.com" -> <<"m", "s", ".", "c", "o", "m">>
      [] s = "@microsoft" -> <<"@", "m", "i", "c", "r", "o", "s", "o", "f", "t">>
      [] s = "@ms" -> <<"@", "m", "s">>
      [] s = "imf.org" -> <<"i", "m", "f", ".", "o", "r", "g">>
      [] s = "internationalmonetaryfund.org" -> <<"i", "n", "t", "e", "r", "n", "a", "t", "i", "o", "n", "a", "l", "m", "o", "n", "e", "t", "a", "r", "y", "f", "u", "n", "d", ".", "o", "r", "g">>
      [] s = "@imf" -> <<"@", "i", "m", "f">>
      [] s = "international monetary fund" -> <<"i", "n", "t", "e", "r", "n", "a", "t", "i", "o", "n", "a", "l", " ", "m", "o", "n", "e", "t", "a", "r", "y", " ", "f", "u", "n", "d">>
      [] s = "iadb.org" -> <<"i", "a", "d", "b", ".", "o", "r", "g">>
      [] s = "@idb" -> <<"@", "i", "d", "b">>
      [] s = "@iadb" -> <<"@", "i", "a", "d", "b">>
      [] s = "inter-american development bank" -> <<"i", "n", "t", "e", "r", "-", "a", "m", "e", "r", "i", "c", "a", "n", " ", "d", "e", "v", "e", "l", "o", "p", "m", "e", "n", "t", " ", "b", "a", "n", "k">>
      [] s = "un.org" -> <<"u", "n", ".", "o", "r", "g">>
      [] s = "undp.org" -> <<"u", "n", "d", "p", ".", "o", "r", "g">>
      [] s = "unesco.org" -> <<"u", "n", "e", "s", "c", "o", ".", "o", "r", "g">>
      [] s = "who.int" -> <<"w", "h", "o", ".", "i", "n", "t">>
      [] s = "@un.org" -> <<"@", "u", "n", ".", "o", "r", "g">>
      [] s = "@undp" -> <<"@", "u", "n", "d", "p">>
      [] s = "@unesco" -> <<"@", "u", "n", "e", "s", "c", "o">>
      [] s = "@who.int" -> <<"@", "w", "h", "o", ".", "i", "n", "t">>
      [] s = "united nations" -> <<"u", "n", "i", "t", "e", "d", " ", "n", "a", "t", "i", "o", "n", "s">>

\* The senders match_sender is given: no sender, and the addresses made of
\* these local parts and domains
SenderLocals ==
    {<<"f", "u", "n", "d">>,
     <<"r", "e", "f", "u", "n", "d">>,
     <<"n", "e", "w", "s">>,
     <<"N", "e", "w", "s">>,
     <<"m", "c", "k", "i", "n", "s", "e", "y">>,
     <<"j", "o", "h", "n">>}
SenderDomains ==
    {<<"s", "o", "m", "e", "t", "h", "i", "n", "g", ".", "c", "o", "m">>,
     <<"c", "o", "m", "p", "a", "n", "y", ".", "c", "o", "m">>,
     <<"i", "m", "f", ".", "o", "r", "g">>,
     <<"I", "M", "F", ".", "o", "r", "g">>,
     <<"m", "c", "k", "i", "n", "s", "e", "y", ".", "c", "o", "m">>,
     <<"e", "m", "a", "i", "l", ".", "m", "c", "k", "i", "n", "s", "e", "y", ".", "c", "o", "m">>,
     <<"h", "o", "n", "e", "y", ".", "c", "o", "m">>,
     <<"u", "n", ".", "o", "r", "g">>,
     <<"f", "u", "n", ".", "o", "r", "g">>,
     <<"b", "c", "g", ".", "o", "r", "g">>,
     <<"n", "o", "t", "b", "c", "g", ".", "c", "o", "m">>,
     <<"m", "e", "t", "a", ".", "g", "o", "o", "g", "l", "e", ".", "c", "o", "m">>}
Senders == {<<>>} \cup {l \o <<"@">> \o d : l \in SenderLocals, d \in SenderDomains}

\* str.lower()
UpperCase == <<"A", "B", "C", "D", "E", "F", "G", "H", "I", "J", "K", "L", "M", "N", "O", "P", "Q", "R", "S", "T", "U", "V", "W", "X", "Y", "Z">>
LowerCase == <<"a", "b", "c", "d", "e", "f", "g", "h", "i", "j", "k", "l", "m", "n", "o", "p", "q", "r", "s", "t", "u", "v", "w", "x", "y", "z">>
LowerChar(c) ==
    IF \E i \in 1..Len(UpperCase) : UpperCase[i] = c
    THEN LowerCase[CHOOSE i \in 1..Len(UpperCase) : UpperCase[i] = c]
    ELSE c
LowerChars(str) == [i \in 1..Len(str) |-> LowerChar(str[i])]

\* needle in str
Contains(str, needle) ==
    \E i \in 0..(Len(str) - Len(needle)) : SubSeq(str, i + 1, i + Len(needle)) = needle

\* line 96: any(domain in from_field for domain in matchers["domains"])
AnyDomainIn(str, key) ==
    \E i \in 1..Len(COMPANIES[key].domains) : Contains(str, Chars(COMPANIES[key].domains[i]))

\* line 100: any(pattern in from_field for pattern in matchers["patterns"])
AnyPatternIn(str, key) ==
    \E i \in 1..Len(COMPANIES[key].patterns) : Contains(str, Chars(COMPANIES[key].patterns[i]))

InitRegistry ==
    /\ ExecOff /\ ConsOff /\ NormOff /\ FiltOff /\ CraftOff /\ ChainOff /\ ChunkOff
    /\ mpc = "called"
    /\ sender \in Senders
    /\ from_field = <<>> /\ company_at = 0 /\ matched = "none"

\* lines 89-90
MatchSenderEmpty ==
    /\ mpc = "called" /\ sender = <<>>
    /\ matched' = "unknown"
    /\ mpc' = "returned"
    /\ UNCHANGED <<sender, from_field, company_at, chunkVars,
                   execVars, consVars, normVars, filtVars, craftVars, chainVars>>

\* lines 92-94: the sender is lowercased and the loop starts at the first company
MatchSenderLower ==
    /\ mpc = "called" /\ sender # <<>>
    /\ from_field' = LowerChars(sender)
    /\ company_at' = 1
    /\ mpc' = "loop"
    /\ UNCHANGED <<sender, matched, chunkVars,
                   execVars, consVars, normVars, filtVars, craftVars, chainVars>>

\* lines 96-97: a domain of the company is in the sender
MatchDomain ==
    /\ mpc = "loop" /\ company_at <= Len(CompanyKeys)
    /\ AnyDomainIn(from_field, CompanyKeys[company_at])
    /\ matched' = CompanyKeys[company_at]
    /\ mpc' = "returned"
    /\ UNCHANGED <<sender, from_field, company_at, chunkVars,
                   execVars, consVars, normVars, filtVars, craftVars, chainVars>>

\* lines 100-101: no domain but a pattern of the company is in the sender
MatchPattern ==
    /\ mpc = "loop" /\ company_at <= Len(CompanyKeys)
    /\ ~AnyDomainIn(from_field, CompanyKeys[company_at])
    /\ AnyPatternIn(from_field, CompanyKeys[company_at])
    /\ matched' = CompanyKeys[company_at]
    /\ mpc' = "returned"
    /\ UNCHANGED <<sender, from_field, company_at, chunkVars,
                   execVars, consVars, normVars, filtVars, craftVars, chainVars>>

\* line 94: neither, the loop goes to the next company
MatchNext ==
    /\ mpc = "loop" /\ company_at <= Len(CompanyKeys)
    /\ ~AnyDomainIn(from_field, CompanyKeys[company_at])
    /\ ~AnyPatternIn(from_field, CompanyKeys[company_at])
    /\ company_at' = company_at + 1
    /\ UNCHANGED <<mpc, sender, from_field, matched, chunkVars,
                   execVars, consVars, normVars, filtVars, craftVars, chainVars>>

\* line 103: no company matched
MatchUnknown ==
    /\ mpc = "loop" /\ company_at > Len(CompanyKeys)
    /\ matched' = "unknown"
    /\ mpc' = "returned"
    /\ UNCHANGED <<sender, from_field, company_at, chunkVars,
                   execVars, consVars, normVars, filtVars, craftVars, chainVars>>

NextRegistry ==
    \/ MatchSenderEmpty
    \/ MatchSenderLower
    \/ MatchDomain
    \/ MatchPattern
    \/ MatchNext
    \/ MatchUnknown

SpecRegistry == InitRegistry /\ [][NextRegistry]_vars

\* The domain of an address: what follows its last "@"
DomainOf(address) ==
    LET at == {i \in 1..Len(address) : address[i] = "@"}
    IN  IF at = {} THEN <<>>
        ELSE SubSeq(address, (CHOOSE i \in at : \A j \in at : j <= i) + 1, Len(address))

StartsWith(str, head) == Len(head) <= Len(str) /\ SubSeq(str, 1, Len(head)) = head
EndsWith(str, tail) ==
    Len(tail) <= Len(str) /\ SubSeq(str, Len(str) - Len(tail) + 1, Len(str)) = tail

\* The address is of the company: its domain is a registered domain of the
\* company or a subdomain of one, or starts with a pattern of the company
\* (for a pattern written with "@", with what follows the "@")
BelongsTo(address, key) ==
    LET dom == DomainOf(address)
    IN  \/ \E i \in 1..Len(COMPANIES[key].domains) :
              LET d == Chars(COMPANIES[key].domains[i])
              IN  dom = d \/ EndsWith(dom, <<".">> \o d)
        \/ \E i \in 1..Len(COMPANIES[key].patterns) :
              LET p == Chars(COMPANIES[key].patterns[i])
              IN  StartsWith(dom, p) \/ StartsWith(<<"@">> \o dom, p)

\* fund@something.com and refund@company.com (lines 120-121)
FundAtSomething ==
    <<"f", "u", "n", "d", "@", "s", "o", "m", "e", "t", "h", "i", "n", "g", ".", "c", "o", "m">>
RefundAtCompany ==
    <<"r", "e", "f", "u", "n", "d", "@", "c", "o", "m", "p", "a", "n", "y", ".", "c", "o", "m">>

\* C30: match_sender returns 'unknown' for an empty sender; otherwise it
\* returns a company key only when the address belongs to that company: an
\* address whose domain is not a registered domain (or a subdomain of one)
\* and does not carry a pattern as the start of its domain is never
\* attributed to the company, as fund@something.com and refund@company.com
\* are not attributed to imf; when several companies match, the first in
\* registry order wins.
\* (Domains and patterns are looked for anywhere in the sender.)
C30_AttributedOnlyWhenBelonging ==
    mpc = "returned" =>
        /\ sender = <<>> => matched = "unknown"
        /\ sender \in {FundAtSomething, RefundAtCompany} => matched = "unknown"
        /\ matched # "unknown" =>
              /\ BelongsTo(LowerChars(sender), matched)
              /\ \A i \in 1..Len(CompanyKeys) :
                    BelongsTo(LowerChars(sender), CompanyKeys[i]) =>
                        \E j \in 1..i : CompanyKeys[j] = matched

====
